---- MODULE Spec2Model ----
(***************************************************************************)
(* Model of the Specialized Turbo telemetry core: the field registry and   *)
(* message codec of specialized_turbo/protocol.py, the snapshot            *)
(* aggregator of specialized_turbo/models.py and the notification session  *)
(* of specialized_turbo/telemetry.py.                                      *)
(* The specifications share the variables: Spec applies messages to a      *)
(* snapshot, SpecParse makes pairs of codec calls on related buffers,      *)
(* SpecRegistry makes sequences of calls around the field registry,        *)
(* SpecScenario replays the message sequence of test_full_scenario,        *)
(* SpecRouting applies a decoded buffer of every registered pair,          *)
(* SpecSession runs a TelemetryMonitor (notifications, start, stop and     *)
(* stream consumers; SpecSessionFair adds the event loop's fairness and    *)
(* SpecTransport lets the transport calls raise), and SpecRace interleaves *)
(* the stores of update_from_message with the reads of as_dict.            *)
(*                                                                         *)
(* Python values are modelled as tagged records so that values of          *)
(* different Python types can be compared:                                 *)
(*   None            [t |-> "None"]                                        *)
(*   int n           [t |-> "int", v |-> n]                                *)
(*   float num/den   [t |-> "float", num |-> num, den |-> den]             *)
(*   AssistLevel(n)  [t |-> "AssistLevel", v |-> n]                        *)
(*   str             [t |-> "str", s |-> tokens]                           *)
(*   bytes           [t |-> "bytes", b |-> sequence of 0..255]             *)
(* A field name is the sequence of its underscore-separated tokens, so     *)
(* "battery_capacity_wh" is <<"battery", "capacity", "wh">>.  A float is    *)
(* the exact quotient num/den that the double approximates.                *)
(***************************************************************************)
EXTENDS Integers, Sequences, FiniteSets, TLC

VARIABLES
    snapshot,   \* the TelemetrySnapshot object
    applied,    \* history: the messages passed to update_from_message, in order
    exc,        \* exception raised by the last call ("None" when it returned)
    data,       \* the buffer last passed to parse_message
    parsed,     \* what that call returned (None before any call or when it raised)
    op,         \* the operation called last ("init" before any call)
    prev,       \* the parse_message call before the last: [data, parsed, exc]
    request,    \* the last build_request call: [args, ret]
    registry,   \* the module-level dict _FIELD_DEFS
    returned,   \* the dict the last all_field_defs gave its caller: [ref, dict]
    lookup,     \* the last get_field_def call: [key, ret]
    calls,      \* number of codec, registry and snapshot calls made so far
    monitor,    \* the TelemetryMonitor object: _running, _queue, on_update
    conn,       \* its SpecializedConnection: _notification_started, _client,
                \* _pin
    consumers,  \* the stream() generators: where each stands, what it yielded
    caller,     \* the task calling start(), stop(), connect() and
                \* disconnect(): the await it is in
    log,        \* history: buffers delivered, observer calls, transport calls
                \* returned, calls made, calls that raised, stop() calls that
                \* put their sentinel
    writer,     \* the update_from_message call in progress: its next store
    reader      \* the as_dict call of a second thread: what it has read

vars == <<snapshot, applied, exc, data, parsed, op, prev, request, registry,
          returned, lookup, calls, monitor, conn, consumers, caller, log,
          writer, reader>>

sessionVars == <<monitor, conn, consumers, caller, log>>
raceVars == <<writer, reader>>

----------------------------------------------------------------------------
(* Bounds of the model *)

MaxMessages == 3     \* calls to update_from_message in one behaviour
MaxPayload == 3      \* payload bytes after the 2-byte header of an enumerated buffer
MaxCalls == 3        \* calls in one behaviour of SpecRegistry
MaxRouted == 2       \* calls to update_from_message in one behaviour of SpecRouting
MaxSessionCalls == 4  \* buffers delivered, link drops and calls on the session
                      \* in one behaviour of SpecSession

----------------------------------------------------------------------------
(* Python values *)

None == [t |-> "None"]
PyInt(n) == [t |-> "int", v |-> n]
PyFloat(n, d) == [t |-> "float", num |-> n, den |-> d]
PyStr(s) == [t |-> "str", s |-> s]
PyBytes(b) == [t |-> "bytes", b |-> b]

\* AssistLevel(IntEnum): OFF = 0, ECO = 1, TRAIL = 2, TURBO = 3
AssistLevel == (0 :> "OFF") @@ (1 :> "ECO") @@ (2 :> "TRAIL") @@ (3 :> "TURBO")
AssistLevelMember(n) == [t |-> "AssistLevel", v |-> n]

\* Sender(IntEnum)
Sender == [BATTERY |-> 0, MOTOR |-> 1, BIKE_SETTINGS |-> 2, UNKNOWN_03 |-> 3,
           BATTERY_2 |-> 4]

\* BatteryChannel(IntEnum), in definition order
BatteryChannel == <<0, 1, 2, 3, 4, 5, 6, 12>>

----------------------------------------------------------------------------
(* Conversion helpers and the field registry (protocol.py) *)

RECURSIVE LittleEndian(_)
LittleEndian(bytes) ==
    IF bytes = <<>> THEN 0 ELSE Head(bytes) + 256 * LittleEndian(Tail(bytes))

Min(a, b) == IF a < b THEN a ELSE b

\* data[lo:hi] for 0 <= lo <= hi, on a sequence indexed from 1
Slice(bytes, lo, hi) == SubSeq(bytes, lo + 1, Min(hi, Len(bytes)))

RECURSIVE BigEndian(_)
BigEndian(bytes) ==
    IF bytes = <<>> THEN 0
    ELSE bytes[Len(bytes)] + 256 * BigEndian(SubSeq(bytes, 1, Len(bytes) - 1))

\* variant of _int_from_bytes: byteorder="big"
int_from_bytes_big(bytes, offset, size) ==
    BigEndian(Slice(bytes, offset, offset + size))

int_from_bytes(bytes, offset, size) ==
    LittleEndian(Slice(bytes, offset, offset + size))

\* variant of the conversion: int(v * 1.1111), the product truncated
RoundWh_truncated(v) == (v * 11111) \div 10000

\* round(v * 1.1111): the product is rounded to the nearest integer, a tie
\* (v * 11111 = 5000 mod 10000) going to the even neighbour
RoundWh(v) ==
    LET q == (v * 11111) \div 10000
        r == (v * 11111) % 10000
    IN  IF r > 5000 THEN q + 1
        ELSE IF r < 5000 THEN q
        ELSE IF q % 2 = 0 THEN q ELSE q + 1

\* variant of the registry: assist_level registered without its convert
Convert_assist_identity(fn, v) ==
    CASE fn = "identity"    -> PyInt(v)
      [] fn = "wh"          -> PyInt(RoundWh(v))
      [] fn = "voltage"     -> PyFloat(v + 100, 5)
      [] fn = "current"     -> PyFloat(v, 5)
      [] fn = "tenth"       -> PyFloat(v, 10)
      [] fn = "thousandth"  -> PyFloat(v, 1000)
      [] fn = "assist"      -> PyInt(v)
      [] fn = "accel"       -> PyFloat(v - 3000, 60)

\* the convert callables of the registry, by tag
Convert(fn, v) ==
    CASE fn = "identity"    -> PyInt(v)
      [] fn = "wh"          -> PyInt(RoundWh(v))
      [] fn = "voltage"     -> PyFloat(v + 100, 5)
      [] fn = "current"     -> PyFloat(v, 5)
      [] fn = "tenth"       -> PyFloat(v, 10)
      [] fn = "thousandth"  -> PyFloat(v, 1000)
      [] fn = "assist"      -> IF v \in DOMAIN AssistLevel
                               THEN AssistLevelMember(v) ELSE PyInt(v)
      [] fn = "accel"       -> PyFloat(v - 3000, 60)

FieldDefinition(sender, channel, name, unit, size, convert) ==
    [sender |-> sender, channel |-> channel, name |-> name, unit |-> unit,
     data_size |-> size, convert |-> convert]

\* _reg: store the definition under its key, replacing an earlier one
reg(defs, fd) ==
    [k \in DOMAIN defs \cup {<<fd.sender, fd.channel>>} |->
        IF k = <<fd.sender, fd.channel>> THEN fd ELSE defs[k]]

RECURSIVE RegAll(_, _)
RegAll(defs, fds) ==
    IF fds = <<>> THEN defs ELSE RegAll(reg(defs, Head(fds)), Tail(fds))

\* the _reg calls for senders 0x00, 0x01 and 0x02, in source order; the unit
\* "degC" stands for the degree sign followed by C
PrimaryRegistrations == <<
    FieldDefinition(0, 0, <<"battery", "capacity", "wh">>, "Wh", 2, "wh"),
    FieldDefinition(0, 1, <<"battery", "remaining", "wh">>, "Wh", 2, "wh"),
    FieldDefinition(0, 2, <<"battery", "health">>, "%", 1, "identity"),
    FieldDefinition(0, 3, <<"battery", "temp">>, "degC", 1, "identity"),
    FieldDefinition(0, 4, <<"battery", "charge", "cycles">>, "cycles", 2, "identity"),
    FieldDefinition(0, 5, <<"battery", "voltage">>, "V", 1, "voltage"),
    FieldDefinition(0, 6, <<"battery", "current">>, "A", 1, "current"),
    FieldDefinition(0, 12, <<"battery", "charge", "percent">>, "%", 1, "identity"),
    FieldDefinition(1, 0, <<"rider", "power">>, "W", 2, "identity"),
    FieldDefinition(1, 1, <<"cadence">>, "RPM", 2, "tenth"),
    FieldDefinition(1, 2, <<"speed">>, "km/h", 2, "tenth"),
    FieldDefinition(1, 4, <<"odometer">>, "km", 4, "thousandth"),
    FieldDefinition(1, 5, <<"assist", "level">>, "", 2, "assist"),
    FieldDefinition(1, 7, <<"motor", "temp">>, "degC", 1, "identity"),
    FieldDefinition(1, 12, <<"motor", "power">>, "W", 2, "identity"),
    FieldDefinition(1, 16, <<"peak", "assist">>, "", 3, "identity"),
    FieldDefinition(1, 21, <<"shuttle">>, "", 1, "identity"),
    FieldDefinition(2, 0, <<"wheel", "circumference">>, "mm", 2, "identity"),
    FieldDefinition(2, 3, <<"assist", "lev1", "pct">>, "%", 1, "identity"),
    FieldDefinition(2, 4, <<"assist", "lev2", "pct">>, "%", 1, "identity"),
    FieldDefinition(2, 5, <<"assist", "lev3", "pct">>, "%", 1, "identity"),
    FieldDefinition(2, 6, <<"fake", "channel">>, "", 1, "identity"),
    FieldDefinition(2, 7, <<"acceleration">>, "%", 2, "accel") >>

EmptyDefs == [k \in {} |-> None]

PrimaryDefs == RegAll(EmptyDefs, PrimaryRegistrations)

\* variant of the rename: the name is copied as it is
ReplaceBatteryPrefix_none(name) == name

\* name.replace("battery_", "battery2_"): a token "battery" that an
\* underscore follows (any token but the last) becomes "battery2"
ReplaceBatteryPrefix(name) ==
    [i \in DOMAIN name |->
        IF name[i] = "battery" /\ i < Len(name) THEN "battery2" ELSE name[i]]

\* variant of the loop: _reg is called without _orig.convert, so the
\* duplicate gets the identity
RECURSIVE RegSecondary_no_convert(_, _)
RegSecondary_no_convert(defs, channels) ==
    IF channels = <<>> THEN defs
    ELSE LET ch == Head(channels)
             next == IF <<0, ch>> \in DOMAIN defs
                     THEN LET orig == defs[<<0, ch>>]
                          IN  reg(defs, FieldDefinition(4, ch,
                                  ReplaceBatteryPrefix(orig.name), orig.unit,
                                  orig.data_size, "identity"))
                     ELSE defs
         IN  RegSecondary_no_convert(next, Tail(channels))

\* the loop duplicating the battery fields under sender 0x04
RECURSIVE RegSecondary(_, _)
RegSecondary(defs, channels) ==
    IF channels = <<>> THEN defs
    ELSE LET ch == Head(channels)
             next == IF <<0, ch>> \in DOMAIN defs
                     THEN LET orig == defs[<<0, ch>>]
                          IN  reg(defs, FieldDefinition(4, ch,
                                  ReplaceBatteryPrefix(orig.name), orig.unit,
                                  orig.data_size, orig.convert))
                     ELSE defs
         IN  RegSecondary(next, Tail(channels))

\* _FIELD_DEFS once the module is imported
FIELD_DEFS == RegSecondary(PrimaryDefs, BatteryChannel)

\* _FIELD_DEFS.get((sender, channel))
get_field_def(sender, channel) ==
    IF <<sender, channel>> \in DOMAIN registry
    THEN registry[<<sender, channel>>] ELSE None

\* variant of all_field_defs: "return _FIELD_DEFS", the dict itself
all_field_defs_alias == [ref |-> "registry", dict |-> registry]

\* all_field_defs(): dict(_FIELD_DEFS), a new dict with the same entries
all_field_defs == [ref |-> "copy", dict |-> registry]

\* variant of build_request: bytes([channel, sender])
build_request_swapped(sender, channel) ==
    IF sender \in 0..255 /\ channel \in 0..255
    THEN [exc |-> "None", ret |-> PyBytes(<<channel, sender>>)]
    ELSE [exc |-> "ValueError", ret |-> None]

\* variant of build_request: a zero payload byte follows the header
build_request_padded(sender, channel) ==
    IF sender \in 0..255 /\ channel \in 0..255
    THEN [exc |-> "None", ret |-> PyBytes(<<sender, channel, 0>>)]
    ELSE [exc |-> "ValueError", ret |-> None]

\* build_request: bytes([sender, channel]) raises ValueError for an item
\* outside range(256)
build_request(sender, channel) ==
    IF sender \in 0..255 /\ channel \in 0..255
    THEN [exc |-> "None", ret |-> PyBytes(<<sender, channel>>)]
    ELSE [exc |-> "ValueError", ret |-> None]

ParsedMessage(sender, channel, raw, converted, name, unit) ==
    [sender |-> sender, channel |-> channel, raw_value |-> raw,
     converted_value |-> converted, field_name |-> name, unit |-> unit]

\* variant of parse_message: the length test is "len(data) < 2"
parse_message_min2(bytes) ==
    IF Len(bytes) < 2
    THEN [exc |-> "ValueError", ret |-> None]
    ELSE LET sender == bytes[1]
             channel == bytes[2]
             payload == Slice(bytes, 2, Len(bytes))
             field_def == get_field_def(sender, channel)
         IN  IF field_def # None
             THEN LET raw == int_from_bytes(bytes, 2, field_def.data_size)
                  IN  [exc |-> "None",
                       ret |-> ParsedMessage(sender, channel, raw,
                                   Convert(field_def.convert, raw),
                                   PyStr(field_def.name), field_def.unit)]
             ELSE LET raw == int_from_bytes(bytes, 2, Len(payload))
                  IN  [exc |-> "None",
                       ret |-> ParsedMessage(sender, channel, raw, PyInt(raw),
                                   None, "")]

\* variant of parse_message: a registered field with fewer payload bytes
\* than its width raises ValueError
parse_message_strict(bytes) ==
    IF Len(bytes) < 3
    THEN [exc |-> "ValueError", ret |-> None]
    ELSE LET sender == bytes[1]
             channel == bytes[2]
             payload == Slice(bytes, 2, Len(bytes))
             field_def == get_field_def(sender, channel)
         IN  IF field_def # None
             THEN LET raw == int_from_bytes(bytes, 2, field_def.data_size)
                  IN  IF Len(payload) < field_def.data_size
                      THEN [exc |-> "ValueError", ret |-> None]
                      ELSE [exc |-> "None",
                       ret |-> ParsedMessage(sender, channel, raw,
                                   Convert(field_def.convert, raw),
                                   PyStr(field_def.name), field_def.unit)]
             ELSE LET raw == int_from_bytes(bytes, 2, Len(payload))
                  IN  [exc |-> "None",
                       ret |-> ParsedMessage(sender, channel, raw, PyInt(raw),
                                   None, "")]

\* variant of parse_message: a registered field reads the whole payload
parse_message_payload_len(bytes) ==
    IF Len(bytes) < 3
    THEN [exc |-> "ValueError", ret |-> None]
    ELSE LET sender == bytes[1]
             channel == bytes[2]
             payload == Slice(bytes, 2, Len(bytes))
             field_def == get_field_def(sender, channel)
         IN  IF field_def # None
             THEN LET raw == int_from_bytes(bytes, 2, Len(payload))
                  IN  [exc |-> "None",
                       ret |-> ParsedMessage(sender, channel, raw,
                                   Convert(field_def.convert, raw),
                                   PyStr(field_def.name), field_def.unit)]
             ELSE LET raw == int_from_bytes(bytes, 2, Len(payload))
                  IN  [exc |-> "None",
                       ret |-> ParsedMessage(sender, channel, raw, PyInt(raw),
                                   None, "")]

\* variant of parse_message: an unknown field reads one byte
parse_message_unknown_one_byte(bytes) ==
    IF Len(bytes) < 3
    THEN [exc |-> "ValueError", ret |-> None]
    ELSE LET sender == bytes[1]
             channel == bytes[2]
             payload == Slice(bytes, 2, Len(bytes))
             field_def == get_field_def(sender, channel)
         IN  IF field_def # None
             THEN LET raw == int_from_bytes(bytes, 2, field_def.data_size)
                  IN  [exc |-> "None",
                       ret |-> ParsedMessage(sender, channel, raw,
                                   Convert(field_def.convert, raw),
                                   PyStr(field_def.name), field_def.unit)]
             ELSE LET raw == int_from_bytes(bytes, 2, 1)
                  IN  [exc |-> "None",
                       ret |-> ParsedMessage(sender, channel, raw, PyInt(raw),
                                   None, "")]

\* parse_message: [exc, ret], exc = "ValueError" when the buffer is too short
parse_message(bytes) ==
    IF Len(bytes) < 3
    THEN [exc |-> "ValueError", ret |-> None]
    ELSE LET sender == bytes[1]
             channel == bytes[2]
             payload == Slice(bytes, 2, Len(bytes))
             field_def == get_field_def(sender, channel)
         IN  IF field_def # None
             THEN LET raw == int_from_bytes(bytes, 2, field_def.data_size)
                  IN  [exc |-> "None",
                       ret |-> ParsedMessage(sender, channel, raw,
                                   Convert(field_def.convert, raw),
                                   PyStr(field_def.name), field_def.unit)]
             ELSE LET raw == int_from_bytes(bytes, 2, Len(payload))
                  IN  [exc |-> "None",
                       ret |-> ParsedMessage(sender, channel, raw, PyInt(raw),
                                   None, "")]

----------------------------------------------------------------------------
(* Sub-state records (models.py) *)

BatteryAttrs == {"capacity_wh", "remaining_wh", "health_pct", "temp_c",
                 "charge_cycles", "voltage_v", "current_a", "charge_pct"}

MotorAttrs == {"rider_power_w", "cadence_rpm", "speed_kmh", "odometer_km",
               "assist_level", "motor_temp_c", "motor_power_w", "peak_assist",
               "shuttle"}

SettingsAttrs == {"wheel_circumference_mm", "assist_lev1_pct", "assist_lev2_pct",
                  "assist_lev3_pct", "fake_channel", "acceleration_pct"}

\* BatteryState(), MotorState(), BikeSettings(): every field None
BatteryState == [a \in BatteryAttrs |-> None]
MotorState == [a \in MotorAttrs |-> None]
BikeSettings == [a \in SettingsAttrs |-> None]

BatteryState_CHANNEL_MAP ==
    (0 :> "capacity_wh") @@ (1 :> "remaining_wh") @@ (2 :> "health_pct") @@
    (3 :> "temp_c") @@ (4 :> "charge_cycles") @@ (5 :> "voltage_v") @@
    (6 :> "current_a") @@ (12 :> "charge_pct")

\* variant of MotorState._CHANNEL_MAP: MotorChannel.SHUTTLE is missing
MotorState_CHANNEL_MAP_no_shuttle ==
    (0 :> "rider_power_w") @@ (1 :> "cadence_rpm") @@ (2 :> "speed_kmh") @@
    (4 :> "odometer_km") @@ (5 :> "assist_level") @@ (7 :> "motor_temp_c") @@
    (12 :> "motor_power_w") @@ (16 :> "peak_assist")

MotorState_CHANNEL_MAP ==
    (0 :> "rider_power_w") @@ (1 :> "cadence_rpm") @@ (2 :> "speed_kmh") @@
    (4 :> "odometer_km") @@ (5 :> "assist_level") @@ (7 :> "motor_temp_c") @@
    (12 :> "motor_power_w") @@ (16 :> "peak_assist") @@ (21 :> "shuttle")

BikeSettings_CHANNEL_MAP ==
    (0 :> "wheel_circumference_mm") @@ (3 :> "assist_lev1_pct") @@
    (4 :> "assist_lev2_pct") @@ (5 :> "assist_lev3_pct") @@
    (6 :> "fake_channel") @@ (7 :> "acceleration_pct")

\* variant of BatteryState.update: the other fields are reset
BatteryState_update_resets(self, channel, value) ==
    IF channel \in DOMAIN BatteryState_CHANNEL_MAP
    THEN [self |-> [BatteryState EXCEPT ![BatteryState_CHANNEL_MAP[channel]] = value],
          ret |-> TRUE]
    ELSE [self |-> self, ret |-> FALSE]

\* variant of BatteryState.update: reports an unknown channel as known
BatteryState_update_always_true(self, channel, value) ==
    IF channel \in DOMAIN BatteryState_CHANNEL_MAP
    THEN [self |-> [self EXCEPT ![BatteryState_CHANNEL_MAP[channel]] = value],
          ret |-> TRUE]
    ELSE [self |-> self, ret |-> TRUE]

\* update(channel, value): [self, ret], ret = True when the channel was known
BatteryState_update(self, channel, value) ==
    IF channel \in DOMAIN BatteryState_CHANNEL_MAP
    THEN [self |-> [self EXCEPT ![BatteryState_CHANNEL_MAP[channel]] = value],
          ret |-> TRUE]
    ELSE [self |-> self, ret |-> FALSE]

\* variant of MotorState.update: keeps the first value of a field
MotorState_update_first_write(self, channel, value) ==
    IF channel \in DOMAIN MotorState_CHANNEL_MAP
    THEN [self |-> IF self[MotorState_CHANNEL_MAP[channel]] = None
                   THEN [self EXCEPT ![MotorState_CHANNEL_MAP[channel]] = value]
                   ELSE self,
          ret |-> TRUE]
    ELSE [self |-> self, ret |-> FALSE]

MotorState_update(self, channel, value) ==
    IF channel \in DOMAIN MotorState_CHANNEL_MAP
    THEN [self |-> [self EXCEPT ![MotorState_CHANNEL_MAP[channel]] = value],
          ret |-> TRUE]
    ELSE [self |-> self, ret |-> FALSE]

BikeSettings_update(self, channel, value) ==
    IF channel \in DOMAIN BikeSettings_CHANNEL_MAP
    THEN [self |-> [self EXCEPT ![BikeSettings_CHANNEL_MAP[channel]] = value],
          ret |-> TRUE]
    ELSE [self |-> self, ret |-> FALSE]

\* Python truthiness of a value
Truthy(v) ==
    CASE v.t = "None" -> FALSE
      [] v.t = "float" -> v.num # 0
      [] v.t = "str" -> v.s # <<>>
      [] OTHER -> v.v # 0

\* variant of BatteryState.as_dict: filters on truthiness ("if v")
BatteryState_as_dict_truthy(self) ==
    [k \in {a \in BatteryAttrs : Truthy(self[a])} |-> self[k]]

\* as_dict(): the dict of the fields that are not None
BatteryState_as_dict(self) ==
    [k \in {a \in BatteryAttrs : self[a] # None} |-> self[k]]

\* variant of MotorState.as_dict: exports the enum member itself
MotorState_as_dict_no_name(self) ==
    [k \in {a \in MotorAttrs : self[a] # None} |-> self[k]]

MotorState_as_dict(self) ==
    LET assist == IF self["assist_level"].t = "AssistLevel"
                  THEN PyStr(<<AssistLevel[self["assist_level"].v]>>)
                  ELSE self["assist_level"]
        fields == [a \in MotorAttrs |->
                      IF a = "assist_level" THEN assist ELSE self[a]]
    IN  [k \in {a \in MotorAttrs : fields[a] # None} |-> fields[k]]

BikeSettings_as_dict(self) ==
    [k \in {a \in SettingsAttrs : self[a] # None} |-> self[k]]

----------------------------------------------------------------------------
(* TelemetrySnapshot (models.py) *)

\* TelemetrySnapshot() constructed when the monotonic clock reads now
TelemetrySnapshot(now) ==
    [battery |-> BatteryState, battery2 |-> BatteryState, motor |-> MotorState,
     settings |-> BikeSettings, last_updated |-> now, message_count |-> 0,
     unknown_messages |-> <<>>]

\* variant of update_from_message: the test of battery.update's result
\* is inverted ("if self.battery.update(...)")
update_from_message_inverted(self, msg, now) ==
    LET counted == [self EXCEPT !.last_updated = now,
                                !.message_count = self.message_count + 1]
        sender == msg.sender
        channel == msg.channel
        value == msg.converted_value
        unknown == [counted EXCEPT
                       !.unknown_messages = Append(self.unknown_messages, msg)]
        routed(attr, r) ==
            IF r.ret THEN [counted EXCEPT ![attr] = r.self] ELSE unknown
        inverted(attr, r) ==
            IF r.ret THEN [unknown EXCEPT ![attr] = r.self] ELSE counted
    IN  [exc |-> "None",
         self |->
            IF sender = Sender.BATTERY
            THEN inverted("battery", BatteryState_update(self.battery, channel, value))
            ELSE IF sender = Sender.BATTERY_2
            THEN routed("battery2", BatteryState_update(self.battery2, channel, value))
            ELSE IF sender = Sender.MOTOR
            THEN routed("motor", MotorState_update(self.motor, channel, value))
            ELSE IF sender = Sender.BIKE_SETTINGS
            THEN routed("settings", BikeSettings_update(self.settings, channel, value))
            ELSE unknown]

\* variant of update_from_message: the BATTERY_2 branch updates self.battery
update_from_message_one_battery(self, msg, now) ==
    LET counted == [self EXCEPT !.last_updated = now,
                                !.message_count = self.message_count + 1]
        sender == msg.sender
        channel == msg.channel
        value == msg.converted_value
        unknown == [counted EXCEPT
                       !.unknown_messages = Append(self.unknown_messages, msg)]
        routed(attr, r) ==
            IF r.ret THEN [counted EXCEPT ![attr] = r.self] ELSE unknown
    IN  [exc |-> "None",
         self |->
            IF sender = Sender.BATTERY
            THEN routed("battery", BatteryState_update(self.battery, channel, value))
            ELSE IF sender = Sender.BATTERY_2
            THEN routed("battery", BatteryState_update(self.battery, channel, value))
            ELSE IF sender = Sender.MOTOR
            THEN routed("motor", MotorState_update(self.motor, channel, value))
            ELSE IF sender = Sender.BIKE_SETTINGS
            THEN routed("settings", BikeSettings_update(self.settings, channel, value))
            ELSE unknown]

\* variant of update_from_message: an unroutable message is inserted at
\* the front of unknown_messages
update_from_message_prepend(self, msg, now) ==
    LET counted == [self EXCEPT !.last_updated = now,
                                !.message_count = self.message_count + 1]
        sender == msg.sender
        channel == msg.channel
        value == msg.converted_value
        unknown == [counted EXCEPT
                       !.unknown_messages = <<msg>> \o self.unknown_messages]
        routed(attr, r) ==
            IF r.ret THEN [counted EXCEPT ![attr] = r.self] ELSE unknown
    IN  [exc |-> "None",
         self |->
            IF sender = Sender.BATTERY
            THEN routed("battery", BatteryState_update(self.battery, channel, value))
            ELSE IF sender = Sender.BATTERY_2
            THEN routed("battery2", BatteryState_update(self.battery2, channel, value))
            ELSE IF sender = Sender.MOTOR
            THEN routed("motor", MotorState_update(self.motor, channel, value))
            ELSE IF sender = Sender.BIKE_SETTINGS
            THEN routed("settings", BikeSettings_update(self.settings, channel, value))
            ELSE unknown]

\* variant of update_from_message: no final else branch, a message of an
\* unrouted sender is counted and dropped
update_from_message_no_else(self, msg, now) ==
    LET counted == [self EXCEPT !.last_updated = now,
                                !.message_count = self.message_count + 1]
        sender == msg.sender
        channel == msg.channel
        value == msg.converted_value
        unknown == [counted EXCEPT
                       !.unknown_messages = Append(self.unknown_messages, msg)]
        routed(attr, r) ==
            IF r.ret THEN [counted EXCEPT ![attr] = r.self] ELSE unknown
    IN  [exc |-> "None",
         self |->
            IF sender = Sender.BATTERY
            THEN routed("battery", BatteryState_update(self.battery, channel, value))
            ELSE IF sender = Sender.BATTERY_2
            THEN routed("battery2", BatteryState_update(self.battery2, channel, value))
            ELSE IF sender = Sender.MOTOR
            THEN routed("motor", MotorState_update(self.motor, channel, value))
            ELSE IF sender = Sender.BIKE_SETTINGS
            THEN routed("settings", BikeSettings_update(self.settings, channel, value))
            ELSE counted]

\* update_from_message(msg) when the monotonic clock reads now:
\* [self, exc]; no path of the method raises
update_from_message(self, msg, now) ==
    LET counted == [self EXCEPT !.last_updated = now,
                                !.message_count = self.message_count + 1]
        sender == msg.sender
        channel == msg.channel
        value == msg.converted_value
        unknown == [counted EXCEPT
                       !.unknown_messages = Append(self.unknown_messages, msg)]
        routed(attr, r) ==
            IF r.ret THEN [counted EXCEPT ![attr] = r.self] ELSE unknown
    IN  [exc |-> "None",
         self |->
            IF sender = Sender.BATTERY
            THEN routed("battery", BatteryState_update(self.battery, channel, value))
            ELSE IF sender = Sender.BATTERY_2
            THEN routed("battery2", BatteryState_update(self.battery2, channel, value))
            ELSE IF sender = Sender.MOTOR
            THEN routed("motor", MotorState_update(self.motor, channel, value))
            ELSE IF sender = Sender.BIKE_SETTINGS
            THEN routed("settings", BikeSettings_update(self.settings, channel, value))
            ELSE unknown]

\* variant of TelemetrySnapshot.as_dict: "settings" is always a section
TelemetrySnapshot_as_dict_always_settings(self) ==
    LET batt2 == BatteryState_as_dict(self.battery2)
        settings == BikeSettings_as_dict(self.settings)
        keys == {"battery", "motor", "settings", "message_count"}
                  \cup (IF DOMAIN batt2 # {} THEN {"battery2"} ELSE {})
    IN  [k \in keys |->
            CASE k = "battery" -> BatteryState_as_dict(self.battery)
              [] k = "battery2" -> batt2
              [] k = "motor" -> MotorState_as_dict(self.motor)
              [] k = "settings" -> settings
              [] k = "message_count" -> PyInt(self.message_count)]

\* variant of TelemetrySnapshot.as_dict: "battery2" is always a section
TelemetrySnapshot_as_dict_always_battery2(self) ==
    LET batt2 == BatteryState_as_dict(self.battery2)
        settings == BikeSettings_as_dict(self.settings)
        keys == {"battery", "battery2", "motor", "message_count"}
                  \cup (IF DOMAIN settings # {} THEN {"settings"} ELSE {})
    IN  [k \in keys |->
            CASE k = "battery" -> BatteryState_as_dict(self.battery)
              [] k = "battery2" -> batt2
              [] k = "motor" -> MotorState_as_dict(self.motor)
              [] k = "settings" -> settings
              [] k = "message_count" -> PyInt(self.message_count)]

\* as_dict(): sections keyed by name; "battery2" and "settings" only when
\* their dict is not empty
TelemetrySnapshot_as_dict(self) ==
    LET batt2 == BatteryState_as_dict(self.battery2)
        settings == BikeSettings_as_dict(self.settings)
        keys == {"battery", "motor", "message_count"}
                  \cup (IF DOMAIN batt2 # {} THEN {"battery2"} ELSE {})
                  \cup (IF DOMAIN settings # {} THEN {"settings"} ELSE {})
    IN  [k \in keys |->
            CASE k = "battery" -> BatteryState_as_dict(self.battery)
              [] k = "battery2" -> batt2
              [] k = "motor" -> MotorState_as_dict(self.motor)
              [] k = "settings" -> settings
              [] k = "message_count" -> PyInt(self.message_count)]

----------------------------------------------------------------------------
(* update_from_message and as_dict store by store and read by read, as a    *)
(* second thread sees them                                                 *)

\* no update_from_message call is in progress; no as_dict call was made
NoUpdate == [pc |-> "idle", msg |-> None, before |-> None]
NoRead == [pc |-> "idle", i |-> 0, view |-> None, base |-> None, n |-> 0,
           over |-> 0, msg |-> None]

\* variant of update_from_message: the sub-state's field is cleared by a
\* first store and set by a second
update_from_message_store_cleared(self, msg, now, pc) ==
    LET whole == update_from_message(self, msg, self.last_updated).self
        cleared == update_from_message(
                       self, [msg EXCEPT !.converted_value = None],
                       self.last_updated).self
    IN  CASE pc = "last_updated" ->
                [self |-> [self EXCEPT !.last_updated = now],
                 pc |-> "message_count"]
          [] pc = "message_count" ->
                [self |-> [self EXCEPT !.message_count = @ + 1],
                 pc |-> "route"]
          [] pc = "route" ->
                [self |-> [cleared EXCEPT !.message_count = self.message_count],
                 pc |-> "set"]
          [] pc = "set" ->
                [self |-> [whole EXCEPT !.message_count = self.message_count],
                 pc |-> "done"]

\* the next store of update_from_message(msg) at pc, and where the call
\* stands after it: self.last_updated = time.monotonic(), then
\* self.message_count += 1, then the one store of the routing statements
\* (setattr in the sub-state's update, or unknown_messages.append)
update_from_message_store(self, msg, now, pc) ==
    LET whole == update_from_message(self, msg, self.last_updated).self
    IN  CASE pc = "last_updated" ->
                [self |-> [self EXCEPT !.last_updated = now],
                 pc |-> "message_count"]
          [] pc = "message_count" ->
                [self |-> [self EXCEPT !.message_count = @ + 1],
                 pc |-> "route"]
          [] pc = "route" ->
                [self |-> [whole EXCEPT !.message_count = self.message_count],
                 pc |-> "done"]

\* the attributes the as_dict of each sub-state reads, in the order it
\* reads them: the entries of the dict display in turn, and in MotorState
\* assist_level first ("assist = self.assist_level")
BatteryState_as_dict_reads ==
    <<"capacity_wh", "remaining_wh", "health_pct", "temp_c", "charge_cycles",
      "voltage_v", "current_a", "charge_pct">>

MotorState_as_dict_reads ==
    <<"assist_level", "rider_power_w", "cadence_rpm", "speed_kmh",
      "odometer_km", "motor_temp_c", "motor_power_w", "peak_assist", "shuttle">>

BikeSettings_as_dict_reads ==
    <<"wheel_circumference_mm", "assist_lev1_pct", "assist_lev2_pct",
      "assist_lev3_pct", "fake_channel", "acceleration_pct">>

\* the attribute reads of TelemetrySnapshot.as_dict in order: the fields
\* of battery, battery2, motor and settings, then message_count
AsDictReads ==
    [i \in 1..8 |-> <<"battery", BatteryState_as_dict_reads[i]>>]
    \o [i \in 1..8 |-> <<"battery2", BatteryState_as_dict_reads[i]>>]
    \o [i \in 1..9 |-> <<"motor", MotorState_as_dict_reads[i]>>]
    \o [i \in 1..6 |-> <<"settings", BikeSettings_as_dict_reads[i]>>]
    \o << <<"message_count">> >>

\* as_dict makes read AsDictReads[i] on the live snapshot
as_dict_read(view, self, i) ==
    LET r == AsDictReads[i]
    IN  IF Len(r) = 1
        THEN [view EXCEPT ![r[1]] = self[r[1]]]
        ELSE [view EXCEPT ![r[1]][r[2]] = self[r[1]][r[2]]]

----------------------------------------------------------------------------
(* TelemetryMonitor (telemetry.py) *)

\* asyncio.Queue(maxsize): not bounded when maxsize <= 0
Queue(maxsize) == [maxsize |-> maxsize, items |-> <<>>]

full(queue) == queue.maxsize > 0 /\ Len(queue.items) >= queue.maxsize

\* queue.put_nowait(item): [self, exc]
put_nowait(queue, item) ==
    IF full(queue)
    THEN [exc |-> "QueueFull", self |-> queue]
    ELSE [exc |-> "None",
          self |-> [queue EXCEPT !.items = Append(queue.items, item)]]

\* TelemetryMonitor(connection); its _snapshot is the variable snapshot
TelemetryMonitor ==
    [running |-> FALSE, queue |-> Queue(0), on_update |-> "None"]

\* the pin argument of SpecializedConnection(address, pin): None or an int
Pins == {"None", "int"}

\* the connection handed to the monitor: constructed, connected and not
\* yet subscribed.  client is "None" (_client is None), "connected" or
\* "not connected" (a BleakClient whose is_connected is true or false).
\* _pin is assigned in __init__ and read only by connect(): pin is
\* "unread" until connect() reads it, and is then one of Pins for good
SpecializedConnection ==
    [notification_started |-> FALSE, client |-> "connected", pin |-> "unread"]

\* the stream() generators of one behaviour
Consumers == {1, 2}

\* variant of the handler: parse_message is called outside the try, so
\* its ValueError leaves the handler
notification_handler_no_try(self, snap, buffer, now) ==
    LET m == parse_message(buffer)
        u == update_from_message(snap, m.ret, now)
        called == IF self.on_update # "None"
                  THEN << [msg |-> m.ret, snapshot |-> u.self,
                           queued |-> Len(self.queue.items),
                           outcome |-> self.on_update] >>
                  ELSE <<>>
        put == put_nowait(self.queue, m.ret)
    IN  IF m.exc # "None"
        THEN [exc |-> m.exc, self |-> self, snapshot |-> snap,
              msg |-> None, on_update |-> <<>>]
        ELSE [exc |-> "None", self |-> [self EXCEPT !.queue = put.self],
              snapshot |-> u.self, msg |-> m.ret, on_update |-> called]

\* variant of the handler: on_update is called outside the try, so its
\* exception leaves the handler before the message is enqueued
notification_handler_observer_escapes(self, snap, buffer, now) ==
    LET m == parse_message(buffer)
        u == update_from_message(snap, m.ret, now)
        called == IF self.on_update # "None"
                  THEN << [msg |-> m.ret, snapshot |-> u.self,
                           queued |-> Len(self.queue.items),
                           outcome |-> self.on_update] >>
                  ELSE <<>>
        put == put_nowait(self.queue, m.ret)
    IN  IF m.exc # "None"
        THEN [exc |-> "None", self |-> self, snapshot |-> snap,
              msg |-> None, on_update |-> <<>>]
        ELSE IF self.on_update = "raises"
        THEN [exc |-> "Exception", self |-> self, snapshot |-> u.self,
              msg |-> m.ret, on_update |-> called]
        ELSE [exc |-> "None", self |-> [self EXCEPT !.queue = put.self],
              snapshot |-> u.self, msg |-> m.ret, on_update |-> called]

\* variant of the handler: on_update is called before the snapshot is
\* updated
notification_handler_observer_first(self, snap, buffer, now) ==
    LET m == parse_message(buffer)
        u == update_from_message(snap, m.ret, now)
        called == IF self.on_update # "None"
                  THEN << [msg |-> m.ret, snapshot |-> snap,
                           queued |-> Len(self.queue.items),
                           outcome |-> self.on_update] >>
                  ELSE <<>>
        put == put_nowait(self.queue, m.ret)
    IN  IF m.exc # "None"
        THEN [exc |-> "None", self |-> self, snapshot |-> snap,
              msg |-> None, on_update |-> <<>>]
        ELSE [exc |-> "None", self |-> [self EXCEPT !.queue = put.self],
              snapshot |-> u.self, msg |-> m.ret, on_update |-> called]

\* variant of the handler: the snapshot is updated after the observer
\* returned, inside its try, so a raising observer leaves it as it was
notification_handler_update_in_try(self, snap, buffer, now) ==
    LET m == parse_message(buffer)
        u == update_from_message(snap, m.ret, now)
        called == IF self.on_update # "None"
                  THEN << [msg |-> m.ret, snapshot |-> snap,
                           queued |-> Len(self.queue.items),
                           outcome |-> self.on_update] >>
                  ELSE <<>>
        put == put_nowait(self.queue, m.ret)
    IN  IF m.exc # "None"
        THEN [exc |-> "None", self |-> self, snapshot |-> snap,
              msg |-> None, on_update |-> <<>>]
        ELSE [exc |-> "None", self |-> [self EXCEPT !.queue = put.self],
              snapshot |-> IF self.on_update = "raises" THEN snap ELSE u.self,
              msg |-> m.ret, on_update |-> called]

\* variant of the handler: a buffer delivered while the session is not
\* running is ignored
notification_handler_checks_running(self, snap, buffer, now) ==
    LET m == parse_message(buffer)
        u == update_from_message(snap, m.ret, now)
        called == IF self.on_update # "None"
                  THEN << [msg |-> m.ret, snapshot |-> u.self,
                           queued |-> Len(self.queue.items),
                           outcome |-> self.on_update] >>
                  ELSE <<>>
        put == put_nowait(self.queue, m.ret)
    IN  IF m.exc # "None" \/ ~self.running
        THEN [exc |-> "None", self |-> self, snapshot |-> snap,
              msg |-> None, on_update |-> <<>>]
        ELSE [exc |-> "None", self |-> [self EXCEPT !.queue = put.self],
              snapshot |-> u.self, msg |-> m.ret, on_update |-> called]

\* _notification_handler(sender_handle, data) when the clock reads now;
\* on_update is None, a callable that returns or a callable that raises:
\* the monitor and snapshot after the call, the exception leaving it, the
\* decoded message (None when decoding failed) and the observer calls made,
\* each with the snapshot the observer was given
notification_handler(self, snap, buffer, now) ==
    LET m == parse_message(buffer)
        u == update_from_message(snap, m.ret, now)
        called == IF self.on_update # "None"
                  THEN << [msg |-> m.ret, snapshot |-> u.self,
                           queued |-> Len(self.queue.items),
                           outcome |-> self.on_update] >>
                  ELSE <<>>
        put == put_nowait(self.queue, m.ret)
    IN  IF m.exc # "None"
        THEN [exc |-> "None", self |-> self, snapshot |-> snap,
              msg |-> None, on_update |-> <<>>]
        ELSE [exc |-> "None", self |-> [self EXCEPT !.queue = put.self],
              snapshot |-> u.self, msg |-> m.ret, on_update |-> called]

\* variant of start(): a session that starts empties its queue
start_clears_queue(self) ==
    IF self.running
    THEN [self |-> self, await |-> "None"]
    ELSE [self |-> [self EXCEPT !.running = TRUE, !.queue.items = <<>>],
          await |-> "subscribe_notifications"]

\* variant of start(): the test of self._running is missing
start_always(self) ==
    [self |-> [self EXCEPT !.running = TRUE],
     await |-> "subscribe_notifications"]

\* start() up to its await: the monitor, and the transport call it awaits
start(self) ==
    IF self.running
    THEN [self |-> self, await |-> "None"]
    ELSE [self |-> [self EXCEPT !.running = TRUE],
          await |-> "subscribe_notifications"]

\* variant of stop(): the test of self._running is missing
stop_always(self) ==
    [self |-> [self EXCEPT !.running = FALSE],
     await |-> "unsubscribe_notifications"]

\* stop() up to its await
stop(self) ==
    IF ~self.running
    THEN [self |-> self, await |-> "None"]
    ELSE [self |-> [self EXCEPT !.running = FALSE],
          await |-> "unsubscribe_notifications"]

\* stop() after unsubscribe_notifications returned: await self._queue.put(None)
stop_resumed(self) ==
    [self EXCEPT !.queue = put_nowait(self.queue, None).self]

\* start() when the subscribe_notifications it awaits raised: the
\* exception leaves start() and _running keeps the value set before
start_raised(self) == [exc |-> "Exception", self |-> self]

\* variant of stop(): the sentinel is put in a finally clause
stop_raised_finally(self) ==
    [exc |-> "Exception",
     self |-> [self EXCEPT !.queue = put_nowait(self.queue, None).self]]

\* stop() when the unsubscribe_notifications it awaits raised: the
\* exception leaves stop() before the sentinel is put
stop_raised(self) == [exc |-> "Exception", self |-> self]

\* subscribe_notifications(callback) up to its await: the assert raises
\* when there is no client, otherwise start_notify is awaited
subscribe_notifications_begin(connection) ==
    IF connection.client = "None"
    THEN [exc |-> "AssertionError", await |-> "None"]
    ELSE [exc |-> "None", await |-> "start_notify"]

\* subscribe_notifications(callback) once start_notify returned
subscribe_notifications(connection) ==
    [connection EXCEPT !.notification_started = TRUE]

\* unsubscribe_notifications() up to its await: stop_notify is awaited
\* when there is a client and notifications were started, otherwise the
\* call returns at once
unsubscribe_notifications_begin(connection) ==
    IF connection.client # "None" /\ connection.notification_started
    THEN [exc |-> "None", await |-> "stop_notify"]
    ELSE [exc |-> "None", await |-> "None"]

\* unsubscribe_notifications() once stop_notify returned
unsubscribe_notifications(connection) ==
    [connection EXCEPT !.notification_started = FALSE]

\* disconnect() up to its first await: stop_notify when the client is
\* connected and notifications were started, the client's disconnect()
\* when it is connected, none otherwise (_client is then set to None)
disconnect_begin(connection) ==
    IF connection.client = "connected"
    THEN [self |-> connection,
          await |-> IF connection.notification_started THEN "stop_notify"
                    ELSE "disconnect"]
    ELSE [self |-> [connection EXCEPT !.client = "None"], await |-> "None"]

\* disconnect() after its stop_notify returned or raised (the exception is
\* swallowed): _notification_started = False
disconnect_stop_notify(connection) ==
    [connection EXCEPT !.notification_started = FALSE]

\* disconnect() after the client's disconnect() returned: _client = None
disconnect_resumed(connection) == [connection EXCEPT !.client = "None"]

\* _on_disconnect(client), called by the client when the link dropped;
\* no disconnect_callback was given
on_disconnect(connection) ==
    [connection EXCEPT !.notification_started = FALSE]

\* connect() up to the await of the new client's connect()
connect_begin(connection) == [connection EXCEPT !.client = "not connected"]

\* connect() after the client connected, up to the await of
\* read_gatt_char
connect_resumed(connection) ==
    [self |-> [connection EXCEPT !.client = "connected"],
     await |-> "read_gatt_char"]

\* connect() after read_gatt_char returned or raised (the exception is
\* caught): pair is awaited when a pin was given
connect_read(connection, pin) ==
    [self |-> [connection EXCEPT !.pin = pin],
     await |-> IF pin # "None" THEN "pair" ELSE "None"]

\* connect() after pair returned or raised (the exception is caught)
connect_paired(connection) == connection

\* connect() when the client's connect() raised: the exception leaves
\* connect() and _client stays the new, unconnected client
connect_raised(connection) == [exc |-> "Exception", self |-> connection]

\* disconnect() when the client's disconnect() raised: the exception
\* leaves disconnect() before _client is set to None
disconnect_raised(connection) == [exc |-> "Exception", self |-> connection]

\* variant of the dequeue: the item put last is taken first
stream_dequeue_lifo(self, gen) ==
    LET n == Len(self.queue.items)
        item == self.queue.items[n]
    IN  [self |-> [self EXCEPT !.queue.items = SubSeq(self.queue.items, 1, n - 1)],
         gen |-> IF item = None
                 THEN [gen EXCEPT !.pc = "done"]
                 ELSE [gen EXCEPT !.pc = "loop",
                                  !.yielded = Append(gen.yielded, item)]]

\* the generator takes the item at the head of the queue: it ends on the
\* sentinel None and yields any other item
stream_dequeue(self, gen) ==
    LET item == Head(self.queue.items)
    IN  [self |-> [self EXCEPT !.queue.items = Tail(self.queue.items)],
         gen |-> IF item = None
                 THEN [gen EXCEPT !.pc = "done"]
                 ELSE [gen EXCEPT !.pc = "loop",
                                  !.yielded = Append(gen.yielded, item)]]

\* variant of stream(): the loop is "while True"
stream_loop_no_check(self, gen) ==
    IF self.queue.items = <<>>
    THEN [self |-> self, gen |-> [gen EXCEPT !.pc = "get"]]
    ELSE stream_dequeue(self, gen)

\* stream() resumed at "while self._running": it ends, or dequeues when an
\* item is there, or blocks in self._queue.get()
stream_loop(self, gen) ==
    IF ~self.running
    THEN [self |-> self, gen |-> [gen EXCEPT !.pc = "done"]]
    ELSE IF self.queue.items = <<>>
    THEN [self |-> self, gen |-> [gen EXCEPT !.pc = "get"]]
    ELSE stream_dequeue(self, gen)

----------------------------------------------------------------------------
(* Inputs *)

\* header and payload bytes of the buffers given to parse_message
SenderVals == {0, 1, 2, 3, 4, 7}
ChannelVals == {0, 5, 12, 16}
PayloadVals == {0, 2, 7}

Payloads(n) == UNION {[1..k -> PayloadVals] : k \in 0..n}

\* odometer buffers carrying the full declared width of 4 bytes
WideBuffers == {<<1, 4>> \o p : p \in [1..4 -> PayloadVals]}

\* assist-level buffers: raw lo + 256 * hi, the four levels and values
\* that are none, up to 65535
AssistBuffers == {<<1, 5, lo, hi>> : lo \in {0, 1, 2, 3, 4, 255}, hi \in {0, 1, 255}}

\* for every registered field, buffers carrying exactly its declared width;
\* the bytes of a 4-byte payload stay small enough for 32-bit arithmetic
ConversionBytes(size) == IF size = 4 THEN PayloadVals ELSE {0, 7, 255}
ConversionBuffers ==
    UNION {{<<k[1], k[2]>> \o p :
               p \in [1..FIELD_DEFS[k].data_size ->
                         ConversionBytes(FIELD_DEFS[k].data_size)]} :
           k \in DOMAIN FIELD_DEFS}

\* the buffers of the reference examples: 00 00 c2 01, 00 01 e4 00,
\* 00 05 50, 01 02 fa 00, 02 07 a0 0f, 04 0c 50
ExampleBuffers ==
    {<<0, 0, 194, 1>>, <<0, 1, 228, 0>>, <<0, 5, 80>>, <<1, 2, 250, 0>>,
     <<2, 7, 160, 15>>, <<4, 12, 80>>}

Buffers ==
    {<<>>} \cup {<<s>> : s \in SenderVals}
    \cup {<<s, c>> \o p : s \in SenderVals, c \in ChannelVals,
                          p \in Payloads(MaxPayload)}
    \cup WideBuffers \cup AssistBuffers \cup ConversionBuffers
    \cup ExampleBuffers

\* bytes appended to a buffer already parsed
Trailing == {<<7>>, <<0, 2>>}

\* the second buffer of a pair of calls: the first with trailing bytes when
\* its (sender, channel) is registered, and the first under sender 0x04
\* when its sender is 0x00
Related(buffer) ==
    (IF Len(buffer) >= 2 /\ <<buffer[1], buffer[2]>> \in DOMAIN registry
     THEN {buffer \o e : e \in Trailing} ELSE {})
    \cup (IF Len(buffer) >= 1 /\ buffer[1] = 0
          THEN {<<4>> \o Tail(buffer)} ELSE {})

\* arguments of build_request, in and out of the byte range, and the
\* payloads appended to a request
RequestVals == {-1, 0, 1, 4, 5, 12, 255, 256}
ResponsePayloads == {<<0>>, <<7>>, <<7, 2>>}

\* buffers whose decoded messages are applied to the snapshot: for each
\* routed sender fields it models (with payload 0 and not 0) and a channel
\* it does not model, every assist level and a raw value that is none,
\* sender 0x03 and a sender outside the enumeration
ApplyBuffers ==
    {<<0, 12, 0>>, <<0, 12, 7>>, <<0, 5, 0>>, <<0, 16, 7>>,
     <<4, 12, 0>>, <<4, 12, 7>>, <<4, 16, 7>>,
     <<1, 5, 0, 0>>, <<1, 5, 1, 0>>, <<1, 5, 2, 0>>, <<1, 5, 3, 0>>,
     <<1, 5, 7, 0>>, <<1, 12, 7, 0>>, <<1, 6, 7>>,
     <<2, 5, 0>>, <<2, 5, 7>>, <<2, 12, 7>>,
     <<3, 5, 7>>, <<7, 5, 7>>}

\* messages built by the caller instead of parse_message: a plain int on
\* the assist channel and a sender that is not a byte
HandBuilt ==
    {ParsedMessage(1, 5, 2, PyInt(2), PyStr(<<"assist", "level">>), ""),
     ParsedMessage(256, 5, 7, PyInt(7), None, "")}

Messages == {parse_message(b).ret : b \in ApplyBuffers} \cup HandBuilt

----------------------------------------------------------------------------
(* Behaviour *)

Init ==
    /\ snapshot = TelemetrySnapshot(0)
    /\ applied = <<>>
    /\ exc = "None"
    /\ data = <<>>
    /\ parsed = None
    /\ op = "init"
    /\ prev = None
    /\ request = None
    /\ registry = FIELD_DEFS
    /\ returned = None
    /\ lookup = None
    /\ calls = 0
    /\ monitor = TelemetryMonitor
    /\ conn = SpecializedConnection
    /\ consumers = [c \in Consumers |->
                       [pc |-> "idle", yielded |-> <<>>, began |-> -1]]
    /\ caller = "idle"
    /\ log = [delivered |-> <<>>, on_update |-> <<>>, start_notify |-> 0,
              stop_notify |-> 0, calls |-> 0, raised |-> <<>>, stops |-> 0]
    /\ writer = NoUpdate
    /\ reader = NoRead

\* snapshot.update_from_message(msg); time.monotonic() has not gone back
\* since it was last read
UpdateFromMessage(msg) ==
    /\ Len(applied) < MaxMessages
    /\ \E dt \in {0, 1} :
          LET r == update_from_message(snapshot, msg, snapshot.last_updated + dt)
          IN  /\ snapshot' = r.self
              /\ exc' = r.exc
    /\ applied' = Append(applied, msg)
    /\ op' = "update_from_message"
    /\ calls' = calls + 1
    /\ UNCHANGED <<data, parsed, prev, request, registry, returned, lookup>>
    /\ UNCHANGED sessionVars
    /\ UNCHANGED raceVars

\* parse_message(buffer)
ParseMessage(buffer) ==
    /\ LET r == parse_message(buffer)
       IN  /\ parsed' = r.ret
           /\ exc' = r.exc
    /\ data' = buffer
    /\ op' = "parse_message"
    /\ prev' = IF op = "parse_message"
               THEN [data |-> data, parsed |-> parsed, exc |-> exc] ELSE None
    /\ calls' = calls + 1
    /\ UNCHANGED <<snapshot, applied, request, registry, returned, lookup>>
    /\ UNCHANGED sessionVars
    /\ UNCHANGED raceVars

\* build_request(sender, channel)
BuildRequest(sender, channel) ==
    /\ LET r == build_request(sender, channel)
       IN  /\ request' = [args |-> <<sender, channel>>, ret |-> r.ret]
           /\ exc' = r.exc
    /\ op' = "build_request"
    /\ calls' = calls + 1
    /\ UNCHANGED <<snapshot, applied, data, parsed, prev, registry, returned,
                   lookup>>
    /\ UNCHANGED sessionVars
    /\ UNCHANGED raceVars

\* get_field_def(sender, channel)
GetFieldDef(sender, channel) ==
    /\ lookup' = [key |-> <<sender, channel>>, ret |-> get_field_def(sender, channel)]
    /\ exc' = "None"
    /\ op' = "get_field_def"
    /\ calls' = calls + 1
    /\ UNCHANGED <<snapshot, applied, data, parsed, prev, request, registry,
                   returned>>
    /\ UNCHANGED sessionVars
    /\ UNCHANGED raceVars

\* all_field_defs()
AllFieldDefs ==
    /\ returned' = all_field_defs
    /\ exc' = "None"
    /\ op' = "all_field_defs"
    /\ calls' = calls + 1
    /\ UNCHANGED <<snapshot, applied, data, parsed, prev, request, registry,
                   lookup>>
    /\ UNCHANGED sessionVars
    /\ UNCHANGED raceVars

\* what the caller does to the dict it was given: del d[key],
\* d[key] = d[(1, 5)], or d.clear()
Changed(dict, change, key) ==
    CASE change = "del" -> [k \in DOMAIN dict \ {key} |-> dict[k]]
      [] change = "set" -> [k \in DOMAIN dict \cup {key} |->
                              IF k = key THEN dict[<<1, 5>>] ELSE dict[k]]
      [] change = "clear" -> EmptyDefs

\* the caller modifies the dict all_field_defs returned; the change shows
\* in _FIELD_DEFS when the two are the same object
ModifyReturned(change, key) ==
    /\ returned # None
    /\ <<1, 5>> \in DOMAIN returned.dict
    /\ key \in DOMAIN returned.dict \/ change = "set"
    /\ returned' = [returned EXCEPT !.dict = Changed(returned.dict, change, key)]
    /\ registry' = IF returned.ref = "registry"
                   THEN Changed(returned.dict, change, key) ELSE registry
    /\ op' = "modify_returned"
    /\ calls' = calls + 1
    /\ UNCHANGED <<snapshot, applied, exc, data, parsed, prev, request, lookup>>
    /\ UNCHANGED sessionVars
    /\ UNCHANGED raceVars

Next == \E msg \in Messages : UpdateFromMessage(msg)

Spec == Init /\ [][Next]_vars

\* the buffers of the next parse_message call: any buffer first, then one
\* related to the first; after build_request, its bytes and a payload
NextBuffers ==
    CASE op = "init" -> Buffers
      [] op = "parse_message" /\ prev = None -> Related(data)
      [] op = "build_request" /\ exc = "None" ->
            {request.ret.b \o p : p \in ResponsePayloads}
      [] OTHER -> {}

NextParse ==
    \/ \E buffer \in NextBuffers : ParseMessage(buffer)
    \/ \E sender \in RequestVals, channel \in RequestVals :
          op = "init" /\ BuildRequest(sender, channel)

SpecParse == Init /\ [][NextParse]_vars

\* inputs of the calls made around the registry
RegistryKeys == {<<0, 12>>, <<4, 12>>, <<1, 5>>, <<9, 9>>}
RegistryBuffers == {<<0, 12, 7>>, <<4, 12, 7>>, <<9, 9, 7>>, <<0, 12>>}
RegistryMessages == {parse_message(b).ret : b \in {<<0, 12, 7>>, <<3, 5, 7>>}}

\* a further call is made while fewer than MaxCalls were
MoreCalls == calls < MaxCalls

NextRegistry ==
    \/ \E key \in RegistryKeys : MoreCalls /\ GetFieldDef(key[1], key[2])
    \/ MoreCalls /\ AllFieldDefs
    \/ \E change \in {"del", "set", "clear"}, key \in RegistryKeys :
          MoreCalls /\ ModifyReturned(change, key)
    \/ \E buffer \in RegistryBuffers : MoreCalls /\ ParseMessage(buffer)
    \/ \E key \in {<<0, 12>>, <<256, 0>>} :
          MoreCalls /\ BuildRequest(key[1], key[2])
    \/ \E msg \in RegistryMessages : MoreCalls /\ UpdateFromMessage(msg)

SpecRegistry == Init /\ [][NextRegistry]_vars

----------------------------------------------------------------------------
(* Vocabulary of the properties *)

\* the sub-state a sender is routed to
SectionOf == (0 :> "battery") @@ (4 :> "battery2") @@ (1 :> "motor") @@
             (2 :> "settings")

Sections == {"battery", "battery2", "motor", "settings"}

ChannelMapOf(section) ==
    CASE section \in {"battery", "battery2"} -> BatteryState_CHANNEL_MAP
      [] section = "motor" -> MotorState_CHANNEL_MAP
      [] section = "settings" -> BikeSettings_CHANNEL_MAP

UpdateOf(section, self, channel, value) ==
    CASE section \in {"battery", "battery2"} -> BatteryState_update(self, channel, value)
      [] section = "motor" -> MotorState_update(self, channel, value)
      [] section = "settings" -> BikeSettings_update(self, channel, value)

\* every field of every sub-state, as <<section, attribute>>
AllFields ==
    {<<s, a>> : s \in {"battery", "battery2"}, a \in BatteryAttrs}
    \cup {<<"motor", a>> : a \in MotorAttrs}
    \cup {<<"settings", a>> : a \in SettingsAttrs}

\* a sub-state field claims the message's (sender, channel)
Claimed(m) ==
    /\ m.sender \in DOMAIN SectionOf
    /\ m.channel \in DOMAIN ChannelMapOf(SectionOf[m.sender])

\* the message's (sender, channel) is that of field f
Targets(m, f) ==
    /\ Claimed(m)
    /\ f = <<SectionOf[m.sender], ChannelMapOf(SectionOf[m.sender])[m.channel]>>

\* this step is a call of update_from_message; LastApplied is its argument
UpdateStep == op' = "update_from_message" /\ Len(applied') = Len(applied) + 1
LastApplied == applied[Len(applied)]

Appended(m) ==
    snapshot'.unknown_messages = Append(snapshot.unknown_messages, m)

SubStatesUnchanged == \A s \in Sections : snapshot'[s] = snapshot[s]

\* field f holds the message's value and no other field changed
OverwroteOnly(f, m) ==
    /\ snapshot'[f[1]][f[2]] = m.converted_value
    /\ \A g \in AllFields \ {f} : snapshot'[g[1]][g[2]] = snapshot[g[1]][g[2]]

----------------------------------------------------------------------------
(* Properties of the snapshot aggregator, checked under Spec *)

\* C1: after N calls of update_from_message on a fresh snapshot,
\* message_count = N, len(unknown_messages) <= N, and N - len(unknown_messages)
\* is the number of applied messages whose (sender, channel) a sub-state
\* field claims.
C1_Accounting ==
    LET N == Len(applied)
    IN  /\ snapshot.message_count = N
        /\ Len(snapshot.unknown_messages) <= N
        /\ N - Len(snapshot.unknown_messages)
             = Cardinality({i \in 1..N : Claimed(applied[i])})

C1_Witness ==
    /\ Len(applied) = 3
    /\ snapshot.message_count = 3
    /\ Len(snapshot.unknown_messages) = 1
    /\ Cardinality({i \in 1..3 : Claimed(applied[i])}) = 2

\* C2: every call of update_from_message either overwrites one field of one
\* sub-state and leaves unknown_messages alone, or appends the message to
\* unknown_messages and leaves every sub-state alone: exactly one of the two.
C2_NoMessageLost ==
    [][UpdateStep =>
        LET m == applied'[Len(applied')]
            wrote == /\ \E f \in AllFields : OverwroteOnly(f, m)
                     /\ snapshot'.unknown_messages = snapshot.unknown_messages
            kept == Appended(m) /\ SubStatesUnchanged
        IN  (wrote \/ kept) /\ ~(wrote /\ kept)]_vars

C2_Witness ==
    /\ Len(applied) = 2
    /\ Claimed(applied[1]) /\ ~Claimed(applied[2])
    /\ snapshot.unknown_messages = <<applied[2]>>
    /\ snapshot.battery["charge_pct"] = applied[1].converted_value

\* C3: after update_from_message(msg) with msg.channel modelled by the target
\* sub-state, the field of msg.channel holds msg.converted_value in the
\* primary battery for sender 0x00, the secondary battery for 0x04, the motor
\* state for 0x01 and the settings for 0x02.
C3_RoutingBySource ==
    (op = "update_from_message") =>
        LET m == LastApplied
            c == m.channel
            v == m.converted_value
        IN  /\ (m.sender = 0 /\ c \in DOMAIN BatteryState_CHANNEL_MAP)
                  => snapshot.battery[BatteryState_CHANNEL_MAP[c]] = v
            /\ (m.sender = 4 /\ c \in DOMAIN BatteryState_CHANNEL_MAP)
                  => snapshot.battery2[BatteryState_CHANNEL_MAP[c]] = v
            /\ (m.sender = 1 /\ c \in DOMAIN MotorState_CHANNEL_MAP)
                  => snapshot.motor[MotorState_CHANNEL_MAP[c]] = v
            /\ (m.sender = 2 /\ c \in DOMAIN BikeSettings_CHANNEL_MAP)
                  => snapshot.settings[BikeSettings_CHANNEL_MAP[c]] = v

C3_Witness ==
    /\ Len(applied) = 3
    /\ applied[1].sender = 0 /\ applied[2].sender = 1 /\ applied[3].sender = 4
    /\ applied[1].channel = 12 /\ applied[3].channel = 12
    /\ snapshot.battery["charge_pct"] = PyInt(0)
    /\ snapshot.battery2["charge_pct"] = PyInt(7)
    /\ snapshot.motor["motor_power_w"] = PyInt(7)

\* C4: update_from_message of a message whose sender is 0x03 or any value
\* outside {0x00, 0x01, 0x02, 0x04} appends it to unknown_messages, changes
\* no sub-state field, counts it in message_count and raises nothing.
C4_UnknownSource ==
    [][(UpdateStep /\ applied'[Len(applied')].sender \notin {0, 1, 2, 4}) =>
        /\ Appended(applied'[Len(applied')])
        /\ SubStatesUnchanged
        /\ snapshot'.message_count = snapshot.message_count + 1
        /\ exc' = "None"]_vars

C4_Witness ==
    /\ Len(applied) = 3
    /\ applied[1].sender = 3 /\ applied[2].sender = 256 /\ applied[3].sender = 7
    /\ snapshot.unknown_messages = applied
    /\ snapshot.message_count = 3

\* C5: when the sender is one of the four routed sources and the channel is
\* not in that sub-state's channel map, the sub-state's update returns False
\* and leaves all its fields unchanged, and update_from_message appends the
\* message to unknown_messages.
C5_UnknownChannel ==
    [][(UpdateStep /\ applied'[Len(applied')].sender \in DOMAIN SectionOf) =>
        LET m == applied'[Len(applied')]
            section == SectionOf[m.sender]
        IN  (m.channel \notin DOMAIN ChannelMapOf(section)) =>
               /\ UpdateOf(section, snapshot[section], m.channel, m.converted_value)
                    = [self |-> snapshot[section], ret |-> FALSE]
               /\ snapshot'[section] = snapshot[section]
               /\ Appended(m)]_vars

C5_Witness ==
    /\ Len(applied) = 3
    /\ <<applied[1].sender, applied[1].channel>> = <<0, 16>>
    /\ <<applied[2].sender, applied[2].channel>> = <<1, 6>>
    /\ <<applied[3].sender, applied[3].channel>> = <<2, 12>>
    /\ snapshot.unknown_messages = applied
    /\ snapshot.battery = BatteryState /\ snapshot.motor = MotorState
    /\ snapshot.settings = BikeSettings

\* the calls that targeted field f, by position in the history
Writes(f) == {i \in 1..Len(applied) : Targets(applied[i], f)}

Latest(S) == CHOOSE i \in S : \A j \in S : j <= i

\* field f is a key of its section in the exported dict d
Appears(d, f) == f[1] \in DOMAIN d /\ f[2] \in DOMAIN d[f[1]]

\* C6: after any sequence of applied messages, every sub-state field that
\* has been set holds the converted_value of the most recent message routed
\* to its (sender, channel), whatever earlier messages carried.
C6_LastWriteWins ==
    \A f \in AllFields :
        /\ snapshot[f[1]][f[2]] # None => Writes(f) # {}
        /\ Writes(f) # {} =>
              snapshot[f[1]][f[2]] = applied[Latest(Writes(f))].converted_value

C6_Witness ==
    /\ Len(applied) = 3
    /\ Writes(<<"motor", "assist_level">>) = {1, 2, 3}
    /\ applied[1].converted_value = AssistLevelMember(2)
    /\ applied[2].converted_value = PyInt(7)
    /\ applied[3].converted_value = AssistLevelMember(0)
    /\ snapshot.motor["assist_level"] = AssistLevelMember(0)

\* C7: a sub-state field appears in as_dict() exactly when some applied
\* message has set it: never before, and in every state after, whatever is
\* applied later and also when the value set is 0.
C7_AbsenceAndPersistence ==
    LET d == TelemetrySnapshot_as_dict(snapshot)
    IN  \A f \in AllFields : Appears(d, f) <=> Writes(f) # {}

C7_Witness ==
    LET d == TelemetrySnapshot_as_dict(snapshot)
    IN  /\ Len(applied) = 3
        /\ Writes(<<"battery", "charge_pct">>) = {1}
        /\ applied[1].converted_value = PyInt(0)
        /\ Appears(d, <<"battery", "charge_pct">>)
        /\ d["battery"]["charge_pct"] = PyInt(0)
        /\ ~Appears(d, <<"battery", "voltage_v">>)

\* C8: as_dict() has the "battery2" section exactly when a secondary-battery
\* field has been set, and always has "message_count", equal to the
\* snapshot's message_count.
C8_Battery2Section ==
    LET d == TelemetrySnapshot_as_dict(snapshot)
    IN  /\ "battery2" \in DOMAIN d
            <=> (\E a \in BatteryAttrs : Writes(<<"battery2", a>>) # {})
        /\ "message_count" \in DOMAIN d
        /\ d["message_count"] = PyInt(snapshot.message_count)

C8_Witness ==
    LET d == TelemetrySnapshot_as_dict(snapshot)
    IN  /\ Len(applied) = 3
        /\ applied[1].sender = 0 /\ applied[2].sender = 4 /\ applied[3].sender = 4
        /\ Writes(<<"battery2", "charge_pct">>) = {2}
        /\ "battery2" \in DOMAIN d
        /\ DOMAIN d["battery2"] = {"charge_pct"}
        /\ d["message_count"] = PyInt(3)

\* the symbolic names of the four assist levels
LevelName(n) ==
    CASE n = 0 -> "OFF" [] n = 1 -> "ECO" [] n = 2 -> "TRAIL" [] n = 3 -> "TURBO"

\* C9: as_dict() exports a stored assist level that is one of the four
\* AssistLevel members by its name (OFF, ECO, TRAIL, TURBO) and a stored
\* plain integer as that integer.
C9_AssistLevelExport ==
    LET stored == snapshot.motor["assist_level"]
        d == TelemetrySnapshot_as_dict(snapshot)["motor"]
    IN  /\ stored.t = "AssistLevel" =>
              /\ stored.v \in 0..3
              /\ "assist_level" \in DOMAIN d
              /\ d["assist_level"] = PyStr(<<LevelName(stored.v)>>)
        /\ stored.t = "int" =>
              /\ "assist_level" \in DOMAIN d
              /\ d["assist_level"] = stored

C9_Witness ==
    /\ Len(applied) = 2
    /\ applied[1].converted_value = PyInt(7)
    /\ applied[2].raw_value = 2
    /\ snapshot.motor["assist_level"] = AssistLevelMember(2)
    /\ TelemetrySnapshot_as_dict(snapshot)["motor"]["assist_level"]
          = PyStr(<<"TRAIL">>)

----------------------------------------------------------------------------
(* Properties of the codec, checked under SpecParse *)

\* C10: parse_message raises ValueError for every buffer of length 0, 1 or
\* 2, and for every buffer of length >= 3 whose (sender, channel) is not in
\* the registry it returns a message whose field_name is None.
C10_MinimumLength ==
    (op = "parse_message") =>
        /\ Len(data) < 3 => (exc = "ValueError" /\ parsed = None)
        /\ (Len(data) >= 3 /\ <<data[1], data[2]>> \notin DOMAIN FIELD_DEFS) =>
              /\ exc = "None"
              /\ parsed # None
              /\ parsed.field_name = None

C10_Witness ==
    /\ op = "parse_message"
    /\ Len(data) = 2
    /\ <<data[1], data[2]>> \notin DOMAIN FIELD_DEFS
    /\ exc = "ValueError"

\* the (sender, channel) of the buffer last parsed and its registry entry
\* after import
DataKey == <<data[1], data[2]>>
DataDef == FIELD_DEFS[DataKey]
Registered == Len(data) >= 2 /\ DataKey \in DOMAIN FIELD_DEFS

\* the sum of bytes[from + i] * 256^i for i < n, bytes indexed from 0
RECURSIVE LEValue(_, _, _)
LEValue(bytes, from, n) ==
    IF n = 0 THEN 0
    ELSE LEValue(bytes, from, n - 1) + bytes[from + n] * 256 ^ (n - 1)

\* C11: for every buffer of length >= 3, registered or not, also a
\* registered field with fewer payload bytes than its declared width,
\* parse_message returns a message and raises nothing.
C11_DecodeNeverFails ==
    (op = "parse_message" /\ Len(data) >= 3) =>
        /\ exc = "None"
        /\ parsed # None
        /\ DOMAIN parsed = {"sender", "channel", "raw_value", "converted_value",
                            "field_name", "unit"}

C11_Witness ==
    /\ op = "parse_message"
    /\ data = <<1, 16, 7>>
    /\ DataDef.data_size = 3
    /\ exc = "None"
    /\ parsed.raw_value = 7
    /\ parsed.field_name = PyStr(<<"peak", "assist">>)

\* C12: for a registered (sender, channel) of width w and a buffer of
\* length >= 2 + w, raw_value is the sum of buffer[2+i] * 256^i for i < w
\* (so it is below 256^w), converted_value is the field's conversion of
\* raw_value, and field_name and unit are the registry's.
C12_RegisteredDecode ==
    (op = "parse_message" /\ Registered /\ Len(data) >= 2 + DataDef.data_size) =>
        LET w == DataDef.data_size
        IN  /\ exc = "None"
            /\ parsed.raw_value = LEValue(data, 2, w)
            /\ parsed.raw_value >= 0
            /\ parsed.raw_value \div (256 ^ (w - 1)) < 256
            /\ parsed.converted_value = Convert(DataDef.convert, parsed.raw_value)
            /\ parsed.field_name = PyStr(DataDef.name)
            /\ parsed.unit = DataDef.unit

C12_Witness ==
    /\ op = "parse_message"
    /\ data = <<1, 4, 2, 7, 0, 2>>
    /\ parsed.raw_value = 2 + 7 * 256 + 2 * 16777216
    /\ parsed.converted_value = PyFloat(33556226, 1000)
    /\ parsed.field_name = PyStr(<<"odometer">>)
    /\ parsed.unit = "km"

\* the buffer last parsed is the one parsed before it with bytes appended
Extends ==
    /\ prev # None
    /\ Len(data) > Len(prev.data)
    /\ SubSeq(data, 1, Len(prev.data)) = prev.data

\* C13: for a registered field of width w and a buffer of length >= 2 + w,
\* appending trailing bytes changes neither raw_value nor converted_value.
C13_WidthDeterminism ==
    (op = "parse_message" /\ Extends /\ Registered
       /\ Len(prev.data) >= 2 + DataDef.data_size) =>
        /\ exc = "None" /\ prev.exc = "None"
        /\ parsed.raw_value = prev.parsed.raw_value
        /\ parsed.converted_value = prev.parsed.converted_value

C13_Witness ==
    /\ op = "parse_message"
    /\ Extends
    /\ prev.data = <<0, 5, 7>>
    /\ data = <<0, 5, 7, 0, 2>>
    /\ prev.parsed.converted_value = PyFloat(107, 5)
    /\ parsed.converted_value = PyFloat(107, 5)

\* C14: for a buffer of length >= 3 whose (sender, channel) is not
\* registered, raw_value is the little-endian integer of all bytes from
\* index 2 to the end, converted_value is raw_value, field_name is None and
\* unit is ""; field_name is present exactly when the registry has an entry.
C14_UnknownFieldDecode ==
    (op = "parse_message" /\ Len(data) >= 3) =>
        /\ exc = "None"
        /\ ~Registered =>
              /\ parsed.raw_value = LEValue(data, 2, Len(data) - 2)
              /\ parsed.converted_value = PyInt(parsed.raw_value)
              /\ parsed.field_name = None
              /\ parsed.unit = ""
        /\ parsed.field_name # None <=> Registered

C14_Witness ==
    /\ op = "parse_message"
    /\ data = <<3, 0, 7, 2, 7>>
    /\ ~Registered
    /\ parsed.raw_value = 7 + 2 * 256 + 7 * 65536
    /\ parsed.converted_value = PyInt(459271)
    /\ parsed.field_name = None

\* the buffer last parsed is the last request followed by a payload
Response ==
    /\ op = "parse_message"
    /\ request # None /\ request.ret # None
    /\ Len(data) > 2
    /\ SubSeq(data, 1, 2) = request.ret.b

\* C15: for sender and channel in 0..255 and a payload of at least one byte,
\* parse_message(build_request(sender, channel) + payload) returns a message
\* whose sender and channel are the arguments of build_request.
C15_RoundTripHeader ==
    (Response /\ request.args[1] \in 0..255 /\ request.args[2] \in 0..255) =>
        /\ exc = "None"
        /\ parsed.sender = request.args[1]
        /\ parsed.channel = request.args[2]

C15_Witness ==
    /\ Response
    /\ request.args = <<255, 12>>
    /\ data = <<255, 12, 7, 2>>
    /\ parsed.sender = 255
    /\ parsed.channel = 12

\* C16 as stated: build_request(sender, channel) always succeeds and returns
\* exactly 2 bytes, byte 0 the sender and byte 1 the channel.
C16_Original ==
    (op = "build_request") =>
        /\ exc = "None"
        /\ request.ret = PyBytes(request.args)

\* C16 amended: for sender and channel in 0..255, build_request succeeds and
\* returns exactly 2 bytes, byte 0 the sender and byte 1 the channel, with
\* no payload.
C16_BuildRequest ==
    (op = "build_request" /\ request.args[1] \in 0..255
       /\ request.args[2] \in 0..255) =>
        /\ exc = "None"
        /\ request.ret.t = "bytes"
        /\ Len(request.ret.b) = 2
        /\ request.ret.b[1] = request.args[1]
        /\ request.ret.b[2] = request.args[2]

C16_Witness ==
    /\ op = "build_request"
    /\ request.args = <<255, 12>>
    /\ exc = "None"
    /\ request.ret = PyBytes(<<255, 12>>)

\* C20: decoding (0x01, 0x05) maps raw 0, 1, 2, 3 to the levels named OFF,
\* ECO, TRAIL, TURBO, and for every other raw value in 0..65535 the
\* converted value is the raw integer.
C20_AssistLevelConversion ==
    (op = "parse_message" /\ Len(data) >= 3 /\ DataKey = <<1, 5>>) =>
        LET raw == parsed.raw_value
            converted == parsed.converted_value
        IN  /\ raw \in 0..65535
            /\ raw \in 0..3 =>
                  /\ converted = AssistLevelMember(raw)
                  /\ AssistLevel[converted.v] = LevelName(raw)
            /\ raw \notin 0..3 => converted = PyInt(raw)

C20_Witness ==
    /\ op = "parse_message"
    /\ data = <<1, 5, 3, 0>>
    /\ parsed.raw_value = 3
    /\ parsed.converted_value = AssistLevelMember(3)
    /\ AssistLevel[parsed.converted_value.v] = "TURBO"

\* the buffer last parsed is the one parsed before it, of sender 0x00, under
\* sender 0x04
Mirrors ==
    /\ op = "parse_message"
    /\ prev # None
    /\ Len(prev.data) >= 1 /\ prev.data[1] = 0
    /\ data = <<4>> \o Tail(prev.data)

\* C18: (0x04, c) is registered exactly when (0x00, c) is, with the same
\* width, unit and conversion and the name's leading battery_ replaced by
\* battery2_; so a payload decodes to the same raw_value and
\* converted_value under sender 0x04 as under sender 0x00.
C18_SecondaryMirrorsPrimary ==
    /\ \A c \in 0..255 :
          /\ <<4, c>> \in DOMAIN registry <=> <<0, c>> \in DOMAIN registry
          /\ <<4, c>> \in DOMAIN registry =>
                LET p == registry[<<0, c>>]
                    q == registry[<<4, c>>]
                IN  /\ q.data_size = p.data_size
                    /\ q.unit = p.unit
                    /\ q.convert = p.convert
                    /\ Head(p.name) = "battery"
                    /\ q.name = <<"battery2">> \o Tail(p.name)
    /\ (Mirrors /\ prev.exc = "None") =>
          /\ exc = "None"
          /\ parsed.raw_value = prev.parsed.raw_value
          /\ parsed.converted_value = prev.parsed.converted_value

C18_Witness ==
    /\ Mirrors
    /\ prev.data = <<0, 5, 7>>
    /\ prev.parsed.converted_value = PyFloat(107, 5)
    /\ parsed.converted_value = PyFloat(107, 5)
    /\ prev.parsed.field_name = PyStr(<<"battery", "voltage">>)
    /\ parsed.field_name = PyStr(<<"battery2", "voltage">>)

----------------------------------------------------------------------------
(* Properties of the registry, checked under SpecRegistry *)

EntriesOf(sender) == {k \in DOMAIN registry : k[1] = sender}

\* C17: the registry holds exactly 31 entries, each under its own
\* (sender, channel), with pairwise distinct names: 8 for sender 0x00, 9 for
\* 0x01, 6 for 0x02 and 8 for 0x04; every width is between 1 and 4.
C17_RegistryShape ==
    /\ Cardinality(DOMAIN registry) = 31
    /\ \A k \in DOMAIN registry :
          /\ <<registry[k].sender, registry[k].channel>> = k
          /\ registry[k].data_size \in 1..4
    /\ \A j, k \in DOMAIN registry : j # k => registry[j].name # registry[k].name
    /\ Cardinality(EntriesOf(0)) = 8
    /\ Cardinality(EntriesOf(1)) = 9
    /\ Cardinality(EntriesOf(2)) = 6
    /\ Cardinality(EntriesOf(4)) = 8

C17_Witness ==
    /\ op = "get_field_def"
    /\ lookup.key = <<4, 12>>
    /\ lookup.ret = FieldDefinition(4, 12, <<"battery2", "charge", "percent">>,
                                    "%", 1, "identity")
    /\ Cardinality(DOMAIN registry) = 31

\* what get_field_def returned for a key just after import
AtImport(key) == IF key \in DOMAIN FIELD_DEFS THEN FIELD_DEFS[key] ELSE None

\* C19: no sequence of get_field_def, all_field_defs, parse_message,
\* build_request and update_from_message calls changes what get_field_def
\* returns for any (sender, channel), and neither does a change the caller
\* makes to the dict all_field_defs returned.
C19_RegistryReadOnly ==
    /\ \A key \in DOMAIN FIELD_DEFS \cup RegistryKeys :
          get_field_def(key[1], key[2]) = AtImport(key)
    /\ DOMAIN registry = DOMAIN FIELD_DEFS
    /\ lookup # None => lookup.ret = AtImport(lookup.key)

C19_Witness ==
    /\ op = "get_field_def"
    /\ returned # None
    /\ returned.dict = EmptyDefs
    /\ lookup.key = <<0, 12>>
    /\ lookup.ret = FIELD_DEFS[<<0, 12>>]

----------------------------------------------------------------------------
(* Conversions, checked under SpecParse *)

\* n is an integer nearest to v * 1.1111
NearestWh(n, v) ==
    LET d == 10000 * n - 11111 * v
    IN  d <= 5000 /\ -d <= 5000

\* the conversion table of the registry, by (sender, channel)
TableFormula(key, raw, converted) ==
    CASE key \in {<<0, 0>>, <<0, 1>>, <<4, 0>>, <<4, 1>>} ->
            converted.t = "int" /\ NearestWh(converted.v, raw)
      [] key \in {<<0, 5>>, <<4, 5>>} ->
            converted.t = "float" /\ converted.num = raw + 20 * converted.den
                                  /\ converted.den = 5
      [] key \in {<<0, 6>>, <<4, 6>>} -> converted = PyFloat(raw, 5)
      [] key \in {<<1, 1>>, <<1, 2>>} -> converted = PyFloat(raw, 10)
      [] key = <<1, 4>> -> converted = PyFloat(raw, 1000)
      [] key = <<2, 7>> -> converted = PyFloat(raw - 3000, 60)
      [] key = <<1, 5>> -> converted.v = raw
      [] OTHER -> converted = PyInt(raw)

\* the decoded values of the reference examples
Example(buffer, raw, converted) ==
    data = buffer =>
        parsed.raw_value = raw /\ parsed.converted_value = converted

\* C21: each registered field's converted value is the table's formula
\* applied to the raw value; 00 00 c2 01 gives raw 450 and 500,
\* 00 01 e4 00 gives 253, 00 05 50 gives 36.0, 01 02 fa 00 gives 25.0,
\* 02 07 a0 0f gives raw 4000 and 1000/60, 04 0c 50 gives 80 named
\* battery2_charge_percent.
C21_ConversionExactness ==
    (op = "parse_message" /\ Len(data) >= 3 /\ Registered) =>
        /\ TableFormula(DataKey, parsed.raw_value, parsed.converted_value)
        /\ Example(<<0, 0, 194, 1>>, 450, PyInt(500))
        /\ Example(<<0, 1, 228, 0>>, 228, PyInt(253))
        /\ Example(<<0, 5, 80>>, 80, PyFloat(180, 5))
        /\ Example(<<1, 2, 250, 0>>, 250, PyFloat(250, 10))
        /\ Example(<<2, 7, 160, 15>>, 4000, PyFloat(1000, 60))
        /\ Example(<<4, 12, 80>>, 80, PyInt(80))
        /\ data = <<4, 12, 80>> =>
              parsed.field_name = PyStr(<<"battery2", "charge", "percent">>)

C21_Witness ==
    /\ op = "parse_message"
    /\ data = <<0, 0, 194, 1>>
    /\ parsed.raw_value = 450
    /\ parsed.converted_value = PyInt(500)

----------------------------------------------------------------------------
(* The session of 18 notifications of test_full_scenario, under            *)
(* SpecScenario                                                            *)

\* the buffers of the session, in order
Scenario ==
    << <<0, 0, 194, 1>>,   \* 0000c201  battery capacity 500 Wh
       <<0, 1, 228, 0>>,   \* 0001e400  battery remaining 253 Wh
       <<0, 2, 100>>,      \* 000264    battery health 100 %
       <<0, 3, 19>>,       \* 000313    battery temp 19
       <<0, 4, 13, 0>>,    \* 00040d00  charge cycles 13
       <<0, 5, 80>>,       \* 000550    voltage 36.0 V
       <<0, 6, 0>>,        \* 000600    current 0 A
       <<0, 12, 52>>,      \* 000c34    charge 52 %
       <<1, 0, 200, 0>>,   \* 0100c800  rider power 200 W
       <<1, 1, 44, 3>>,    \* 01012c03  cadence 81.2 RPM
       <<1, 2, 250, 0>>,   \* 0102fa00  speed 25.0 km/h
       <<1, 5, 2, 0>>,     \* 01050200  assist TRAIL
       <<1, 7, 25>>,       \* 010719    motor temp 25
       <<1, 12, 100, 0>>,  \* 010c6400  motor power 100 W
       <<2, 0, 252, 8>>,   \* 0200fc08  wheel circumference 2300 mm
       <<2, 3, 10>>,       \* 02030a    assist lev1 10 %
       <<2, 4, 20>>,       \* 020414    assist lev2 20 %
       <<2, 5, 50>>        \* 020532    assist lev3 50 %
    >>

\* snap.update_from_message(parse_message(bytes.fromhex(hex_data))) for the
\* next buffer of the session
ApplyScenario ==
    /\ Len(applied) < Len(Scenario)
    /\ LET buffer == Scenario[Len(applied) + 1]
           m == parse_message(buffer)
       IN  /\ m.exc = "None"
           /\ data' = buffer
           /\ parsed' = m.ret
           /\ applied' = Append(applied, m.ret)
           /\ \E dt \in {0, 1} :
                 LET r == update_from_message(snapshot, m.ret,
                                              snapshot.last_updated + dt)
                 IN  /\ snapshot' = r.self
                     /\ exc' = r.exc
    /\ op' = "update_from_message"
    /\ calls' = calls + 1
    /\ UNCHANGED <<prev, request, registry, returned, lookup>>
    /\ UNCHANGED sessionVars
    /\ UNCHANGED raceVars

NextScenario == ApplyScenario

SpecScenario == Init /\ [][NextScenario]_vars

\* the whole session was decoded and applied, in order
ScenarioApplied ==
    /\ Len(applied) = Len(Scenario)
    /\ \A i \in 1..Len(Scenario) : applied[i] = parse_message(Scenario[i]).ret

\* C22: decoding and applying the 18 buffers of the session to a fresh
\* snapshot gives message_count 18, no unrouted message and the listed
\* value in every listed field.
C22_EndToEndScenario ==
    ScenarioApplied =>
        /\ Len(Scenario) = 18
        /\ snapshot.message_count = 18
        /\ snapshot.unknown_messages = <<>>
        /\ snapshot.battery.capacity_wh = PyInt(500)
        /\ snapshot.battery.remaining_wh = PyInt(253)
        /\ snapshot.battery.health_pct = PyInt(100)
        /\ snapshot.battery.temp_c = PyInt(19)
        /\ snapshot.battery.charge_cycles = PyInt(13)
        /\ snapshot.battery.voltage_v = PyFloat(180, 5)
        /\ snapshot.battery.current_a = PyFloat(0, 5)
        /\ snapshot.battery.charge_pct = PyInt(52)
        /\ snapshot.motor.rider_power_w = PyInt(200)
        /\ snapshot.motor.cadence_rpm = PyFloat(812, 10)
        /\ snapshot.motor.speed_kmh = PyFloat(250, 10)
        /\ snapshot.motor.assist_level = AssistLevelMember(2)
        /\ AssistLevel[snapshot.motor.assist_level.v] = "TRAIL"
        /\ snapshot.motor.motor_temp_c = PyInt(25)
        /\ snapshot.motor.motor_power_w = PyInt(100)
        /\ snapshot.settings.wheel_circumference_mm = PyInt(2300)
        /\ snapshot.settings.assist_lev1_pct = PyInt(10)
        /\ snapshot.settings.assist_lev2_pct = PyInt(20)
        /\ snapshot.settings.assist_lev3_pct = PyInt(50)

C22_Witness ==
    /\ ScenarioApplied
    /\ snapshot.message_count = 18
    /\ snapshot.settings.assist_lev3_pct = PyInt(50)
    /\ snapshot.battery.capacity_wh = PyInt(500)

----------------------------------------------------------------------------
(* The telemetry session (telemetry.py), under SpecSession *)

\* buffers the transport delivers: two that decode and one too short
SessionBuffers == {<<0, 12, 7>>, <<1, 5, 2, 0>>, <<0, 12>>}

\* what the monotonic clock has advanced by between two notifications
SessionTicks == {1}

\* the transport calls _notification_handler(handle, buffer)
Notification(buffer) ==
    /\ log.calls < MaxSessionCalls
    /\ \E dt \in SessionTicks :
          LET r == notification_handler(monitor, snapshot, buffer,
                                        snapshot.last_updated + dt)
          IN  /\ monitor' = r.self
              /\ snapshot' = r.snapshot
              /\ exc' = r.exc
              /\ parsed' = r.msg
              /\ applied' = IF r.msg = None THEN applied
                            ELSE Append(applied, r.msg)
              /\ log' = [log EXCEPT !.delivered = Append(@, buffer),
                                    !.on_update = @ \o r.on_update,
                                    !.calls = @ + 1]
    /\ data' = buffer
    /\ op' = "_notification_handler"
    /\ UNCHANGED <<prev, request, registry, returned, lookup, calls, conn,
                   consumers, caller>>
    /\ UNCHANGED raceVars

\* monitor.on_update = cb, before the transport delivers anything
SetOnUpdate(cb) ==
    /\ log.delivered = <<>>
    /\ monitor.on_update # cb
    /\ monitor' = [monitor EXCEPT !.on_update = cb]
    /\ op' = "on_update"
    /\ UNCHANGED <<snapshot, applied, exc, data, parsed, prev, request,
                   registry, returned, lookup, calls, conn, consumers, caller,
                   log>>
    /\ UNCHANGED raceVars

\* await monitor.start(): it returns at once when running, raises at once
\* when the connection has no client, and otherwise is suspended in
\* start_notify
Start ==
    /\ caller = "idle"
    /\ log.calls < MaxSessionCalls
    /\ LET r == start(monitor)
           s == subscribe_notifications_begin(conn)
           raises == r.await # "None" /\ s.exc # "None"
       IN  /\ monitor' = r.self
           /\ caller' = IF r.await # "None" /\ s.await # "None" THEN "start"
                        ELSE "idle"
           /\ exc' = IF raises THEN s.exc ELSE exc
           /\ log' = [log EXCEPT !.calls = @ + 1,
                                 !.raised = IF raises THEN Append(@, "start")
                                            ELSE @]
    /\ op' = "start"
    /\ UNCHANGED <<snapshot, applied, data, parsed, prev, request,
                   registry, returned, lookup, calls, conn, consumers>>
    /\ UNCHANGED raceVars

\* start_notify returns, subscribe_notifications and start() with it
StartResumed ==
    /\ caller = "start"
    /\ conn' = subscribe_notifications(conn)
    /\ log' = [log EXCEPT !.start_notify = @ + 1]
    /\ caller' = "idle"
    /\ op' = "start_resumed"
    /\ UNCHANGED <<snapshot, applied, exc, data, parsed, prev, request,
                   registry, returned, lookup, calls, monitor, consumers>>
    /\ UNCHANGED raceVars

\* await monitor.stop(): it returns at once when not running, is suspended
\* in stop_notify when notifications were started, and otherwise puts the
\* sentinel and returns without being suspended
Stop ==
    /\ caller = "idle"
    /\ log.calls < MaxSessionCalls
    /\ LET r == stop(monitor)
           u == unsubscribe_notifications_begin(conn)
           through == r.await # "None" /\ u.await = "None"
       IN  /\ monitor' = IF through THEN stop_resumed(r.self) ELSE r.self
           /\ caller' = IF r.await # "None" /\ u.await # "None" THEN "stop"
                        ELSE "idle"
           /\ log' = [log EXCEPT !.calls = @ + 1,
                                 !.stops = IF through THEN @ + 1 ELSE @]
    /\ op' = "stop"
    /\ UNCHANGED <<snapshot, applied, exc, data, parsed, prev, request,
                   registry, returned, lookup, calls, conn, consumers>>
    /\ UNCHANGED raceVars

\* stop_notify returns, unsubscribe_notifications with it, and stop() puts
\* the sentinel and returns
StopResumed ==
    /\ caller = "stop"
    /\ conn' = unsubscribe_notifications(conn)
    /\ log' = [log EXCEPT !.stop_notify = @ + 1, !.stops = @ + 1]
    /\ monitor' = stop_resumed(monitor)
    /\ caller' = "idle"
    /\ op' = "stop_resumed"
    /\ UNCHANGED <<snapshot, applied, exc, data, parsed, prev, request,
                   registry, returned, lookup, calls, consumers>>
    /\ UNCHANGED raceVars

\* await conn.disconnect(), up to its first await
Disconnect ==
    /\ caller = "idle"
    /\ log.calls < MaxSessionCalls
    /\ LET r == disconnect_begin(conn)
       IN  /\ conn' = r.self
           /\ caller' = IF r.await = "None" THEN "idle"
                        ELSE IF r.await = "stop_notify"
                        THEN "disconnect:stop_notify"
                        ELSE "disconnect"
    /\ log' = [log EXCEPT !.calls = @ + 1]
    /\ op' = "disconnect"
    /\ UNCHANGED <<snapshot, applied, exc, data, parsed, prev, request,
                   registry, returned, lookup, calls, monitor, consumers>>
    /\ UNCHANGED raceVars

\* the stop_notify of disconnect() returns; disconnect() awaits the
\* client's disconnect()
DisconnectStopNotify ==
    /\ caller = "disconnect:stop_notify"
    /\ conn' = disconnect_stop_notify(conn)
    /\ log' = [log EXCEPT !.stop_notify = @ + 1]
    /\ caller' = "disconnect"
    /\ op' = "disconnect:stop_notify"
    /\ UNCHANGED <<snapshot, applied, exc, data, parsed, prev, request,
                   registry, returned, lookup, calls, monitor, consumers>>
    /\ UNCHANGED raceVars

\* the client's disconnect() returns and disconnect() with it
DisconnectResumed ==
    /\ caller = "disconnect"
    /\ conn' = disconnect_resumed(conn)
    /\ caller' = "idle"
    /\ op' = "disconnect_resumed"
    /\ UNCHANGED <<snapshot, applied, exc, data, parsed, prev, request,
                   registry, returned, lookup, calls, monitor, consumers,
                   log>>
    /\ UNCHANGED raceVars

\* the link drops: the client is no longer connected and calls its
\* disconnected_callback, _on_disconnect
OnDisconnect ==
    /\ conn.client = "connected"
    /\ log.calls < MaxSessionCalls
    /\ conn' = [on_disconnect(conn) EXCEPT !.client = "not connected"]
    /\ log' = [log EXCEPT !.calls = @ + 1]
    /\ op' = "_on_disconnect"
    /\ UNCHANGED <<snapshot, applied, exc, data, parsed, prev, request,
                   registry, returned, lookup, calls, monitor, consumers,
                   caller>>
    /\ UNCHANGED raceVars

\* await conn.connect(), up to the await of the new client's connect()
Connect ==
    /\ caller = "idle"
    /\ log.calls < MaxSessionCalls
    /\ conn' = connect_begin(conn)
    /\ caller' = "connect"
    /\ log' = [log EXCEPT !.calls = @ + 1]
    /\ op' = "connect"
    /\ UNCHANGED <<snapshot, applied, exc, data, parsed, prev, request,
                   registry, returned, lookup, calls, monitor, consumers>>
    /\ UNCHANGED raceVars

\* the client connected; connect() awaits read_gatt_char
ConnectResumed ==
    /\ caller = "connect"
    /\ LET r == connect_resumed(conn)
       IN  /\ conn' = r.self
           /\ caller' = "connect:read_gatt_char"
    /\ op' = "connect_resumed"
    /\ UNCHANGED <<snapshot, applied, exc, data, parsed, prev, request,
                   registry, returned, lookup, calls, monitor, consumers,
                   log>>
    /\ UNCHANGED raceVars

\* read_gatt_char returns or raises; connect() awaits pair when the
\* connection was built with a pin, and returns otherwise
ConnectRead ==
    /\ caller = "connect:read_gatt_char"
    /\ \E pin \in Pins :
          /\ conn.pin \in {"unread", pin}
          /\ LET r == connect_read(conn, pin)
             IN  /\ conn' = r.self
                 /\ caller' = IF r.await = "None" THEN "idle"
                              ELSE "connect:pair"
    /\ op' = "connect:read_gatt_char"
    /\ UNCHANGED <<snapshot, applied, exc, data, parsed, prev, request,
                   registry, returned, lookup, calls, monitor, consumers,
                   log>>
    /\ UNCHANGED raceVars

\* pair returns or raises and connect() returns
ConnectPaired ==
    /\ caller = "connect:pair"
    /\ conn' = connect_paired(conn)
    /\ caller' = "idle"
    /\ op' = "connect:pair"
    /\ UNCHANGED <<snapshot, applied, exc, data, parsed, prev, request,
                   registry, returned, lookup, calls, monitor, consumers,
                   log>>
    /\ UNCHANGED raceVars

\* a consumer begins "async for msg in monitor.stream()"
StreamBegin(c) ==
    /\ consumers[c].pc = "idle"
    /\ consumers' = [consumers EXCEPT ![c].pc = "loop"]
    /\ op' = "stream"
    /\ UNCHANGED <<snapshot, applied, exc, data, parsed, prev, request,
                   registry, returned, lookup, calls, monitor, conn, caller,
                   log>>
    /\ UNCHANGED raceVars

\* the generator of c runs from "while self._running"; began records, the
\* first time it does, how many stop() calls had put their sentinel
StreamLoop(c) ==
    /\ consumers[c].pc = "loop"
    /\ LET r == stream_loop(monitor, consumers[c])
       IN  /\ monitor' = r.self
           /\ consumers' =
                 [consumers EXCEPT ![c] =
                     [r.gen EXCEPT !.began = IF @ = -1 THEN log.stops
                                             ELSE @]]
    /\ op' = "stream"
    /\ UNCHANGED <<snapshot, applied, exc, data, parsed, prev, request,
                   registry, returned, lookup, calls, conn, caller, log>>
    /\ UNCHANGED raceVars

\* the generator of c, blocked in self._queue.get(), is handed an item
StreamGet(c) ==
    /\ consumers[c].pc = "get"
    /\ monitor.queue.items # <<>>
    /\ LET r == stream_dequeue(monitor, consumers[c])
       IN  /\ monitor' = r.self
           /\ consumers' = [consumers EXCEPT ![c] = r.gen]
    /\ op' = "stream"
    /\ UNCHANGED <<snapshot, applied, exc, data, parsed, prev, request,
                   registry, returned, lookup, calls, conn, caller, log>>
    /\ UNCHANGED raceVars

NextSession ==
    \/ \E buffer \in SessionBuffers : Notification(buffer)
    \/ \E cb \in {"None", "returns", "raises"} : SetOnUpdate(cb)
    \/ Start
    \/ StartResumed
    \/ Stop
    \/ StopResumed
    \/ Disconnect
    \/ DisconnectStopNotify
    \/ DisconnectResumed
    \/ OnDisconnect
    \/ Connect
    \/ ConnectResumed
    \/ ConnectRead
    \/ ConnectPaired
    \/ \E c \in Consumers : StreamBegin(c)
    \/ \E c \in Consumers : StreamLoop(c)
    \/ \E c \in Consumers : StreamGet(c)

SpecSession == Init /\ [][NextSession]_vars

\* the event loop runs every generator that can run, and the transport
\* answers the subscribe and unsubscribe calls it is awaited on
SpecSessionFair ==
    /\ SpecSession
    /\ WF_vars(StartResumed)
    /\ WF_vars(StopResumed)
    /\ WF_vars(DisconnectStopNotify)
    /\ WF_vars(DisconnectResumed)
    /\ WF_vars(ConnectResumed)
    /\ WF_vars(ConnectRead)
    /\ WF_vars(ConnectPaired)
    /\ \A c \in Consumers : WF_vars(StreamLoop(c)) /\ WF_vars(StreamGet(c))

----------------------------------------------------------------------------
(* Properties of the session, checked under SpecSession *)

\* the step is one call of _notification_handler
HandlerStep ==
    op' = "_notification_handler" /\ log'.calls = log.calls + 1

Last(seq) == seq[Len(seq)]

\* the handler decoded the buffer, updated the snapshot with the message
\* and put the message at the end of the queue
Processed ==
    LET msg == parse_message(data').ret
    IN  /\ parsed' = msg
        /\ applied' = Append(applied, msg)
        /\ snapshot'.message_count = snapshot.message_count + 1
        /\ snapshot' = update_from_message(snapshot, msg,
                                           snapshot'.last_updated).self
        /\ monitor'.queue.items = Append(monitor.queue.items, msg)

\* C23: a buffer that fails to decode (length < 3) leaves no exception to
\* the transport, the snapshot, the observer log and the queue as they
\* were, and the buffers that follow are processed as usual.
C23_DecodeFailureConfined ==
    [][HandlerStep =>
          /\ exc' = "None"
          /\ Len(data') < 3 =>
                /\ snapshot' = snapshot
                /\ applied' = applied
                /\ log'.on_update = log.on_update
                /\ monitor' = monitor
                /\ consumers' = consumers
          /\ Len(data') >= 3 => Processed]_vars

C23_Witness ==
    /\ op = "_notification_handler"
    /\ log.delivered = << <<0, 12>>, <<0, 12, 7>> >>
    /\ exc = "None"
    /\ monitor.on_update = "returns"
    /\ Len(log.on_update) = 1
    /\ snapshot.message_count = 1
    /\ snapshot.battery.charge_pct = PyInt(7)
    /\ monitor.queue.items = << parse_message(<<0, 12, 7>>).ret >>

\* C24: when on_update raises, no exception leaves the handler, the
\* snapshot keeps the update made for the message and the message is put
\* in the queue.
C24_ObserverFailureIsolated ==
    [][(HandlerStep /\ Len(data') >= 3 /\ monitor.on_update = "raises") =>
          /\ Last(log'.on_update).outcome = "raises"
          /\ Len(log'.on_update) = Len(log.on_update) + 1
          /\ exc' = "None"
          /\ Processed]_vars

C24_Witness ==
    /\ op = "_notification_handler"
    /\ monitor.on_update = "raises"
    /\ log.on_update # <<>>
    /\ Last(log.on_update).outcome = "raises"
    /\ Last(log.on_update).msg = parsed
    /\ snapshot.message_count = 2
    /\ Len(monitor.queue.items) = 2
    /\ Last(monitor.queue.items) = parsed

\* the messages the consumers were handed or can still be handed
Yielded == UNION {{consumers[c].yielded[i] : i \in 1..Len(consumers[c].yielded)} :
                  c \in Consumers}
Queued == {monitor.queue.items[i] : i \in 1..Len(monitor.queue.items)} \ {None}
Absorbed == {applied[i] : i \in 1..Len(applied)}

\* C25: for a decoded buffer the handler applies the message, then calls
\* the observer with (message, snapshot), then enqueues the message: the
\* observer is given a snapshot whose message_count counts the message, at
\* a time the message is not yet in the queue, and no consumer is handed a
\* message the snapshot has not absorbed.
C25_PerBufferOrdering ==
    /\ [][(HandlerStep /\ Len(data') >= 3) =>
             /\ Processed
             /\ monitor.on_update # "None" =>
                   LET call == Last(log'.on_update)
                   IN  /\ Len(log'.on_update) = Len(log.on_update) + 1
                       /\ call.msg = parsed'
                       /\ call.snapshot = snapshot'
                       /\ call.snapshot.message_count = Len(applied')
                       /\ call.queued = Len(monitor.queue.items)]_vars
    /\ [](/\ Yielded \cup Queued \subseteq Absorbed
          /\ snapshot.message_count = Len(applied)
          /\ \A i \in 1..Len(log.on_update) :
                LET call == log.on_update[i]
                IN  /\ call.snapshot.message_count \in 1..Len(applied)
                    /\ applied[call.snapshot.message_count] = call.msg)

C25_Witness ==
    /\ log.on_update # <<>>
    /\ Len(applied) = 2
    /\ Last(log.on_update).snapshot.message_count = 2
    /\ Last(log.on_update).queued = 0
    /\ consumers[1].yielded = <<applied[1]>>
    /\ monitor.queue.items = <<applied[2]>>

\* C26: the delivery queue is bounded; when it is full a newly decoded
\* message is dropped (queue unchanged, nothing raised) while the snapshot
\* is still updated.  The queue is built by asyncio.Queue() with no
\* maxsize, so it is never full and every decoded message is enqueued.
C26_Original ==
    [][(HandlerStep /\ Len(data') >= 3) =>
          /\ monitor.queue.maxsize > 0
          /\ full(monitor.queue) => monitor'.queue = monitor.queue
          /\ exc' = "None"
          /\ snapshot'.message_count = snapshot.message_count + 1]_vars

\* C27: every consumer blocked in stream() when stop() is called
\* eventually receives the end-of-stream signal and terminates, however
\* many consumers are blocked.  stop() puts a single None in the queue, so
\* only one of two blocked consumers ends.
C27_Original ==
    \A c \in Consumers :
        (consumers[c].pc = "get" /\ caller = "stop") ~> (consumers[c].pc = "done")

\* the step is one call of start(), of stop()
StartStep == op' = "start" /\ log'.calls = log.calls + 1
StopStep == op' = "stop" /\ log'.calls = log.calls + 1

\* the call returned at once and changed nothing of the session
NothingChanged ==
    /\ monitor' = monitor
    /\ conn' = conn
    /\ caller' = "idle"
    /\ snapshot' = snapshot
    /\ consumers' = consumers
    /\ log' = [log EXCEPT !.calls = @ + 1]

\* C28: running is false at first; a start() issued while running is true
\* returns without subscribing and changes no session state.  A start()
\* issued while running is false sets running and subscribes (or raises
\* at once when the connection has no client), so each subscription
\* follows a start() that turned running from false to true.
C28_StartIdempotent ==
    /\ [](op = "init" => ~monitor.running)
    /\ [][(StartStep /\ monitor.running) => NothingChanged]_vars
    /\ [][(StartStep /\ ~monitor.running) =>
             /\ monitor'.running
             /\ IF conn.client = "None"
                THEN caller' = "idle" /\ exc' = "AssertionError"
                ELSE caller' = "start"]_vars
    /\ [][log'.start_notify # log.start_notify =>
             /\ caller = "start" /\ caller' = "idle"
             /\ log'.start_notify = log.start_notify + 1]_vars
    /\ [][(caller' = "start" /\ caller # "start") =>
             (StartStep /\ ~monitor.running)]_vars
    /\ [](caller = "start" => monitor.running)

C28_Witness ==
    /\ op = "start"
    /\ caller = "idle"
    /\ monitor.running
    /\ log.calls = 2
    /\ log.delivered = <<>>
    /\ log.start_notify = 1
    /\ conn.notification_started

\* the sentinels in the queue
Sentinels(queue) == {i \in 1..Len(queue.items) : queue.items[i] = None}

\* the connection has a client on which notifications are started
Subscribed == conn.client # "None" /\ conn.notification_started

\* C29: a stop() of a running session sets running to false, unsubscribes
\* (stop_notify is awaited when the connection has a client with
\* notifications started, and nothing is left subscribed) and enqueues
\* exactly one sentinel; a stop() issued when running is false unsubscribes
\* nothing, enqueues nothing and changes no state.
C29_StopIdempotent ==
    /\ [][(StopStep /\ ~monitor.running) => NothingChanged]_vars
    /\ [][(StopStep /\ monitor.running) =>
             /\ ~monitor'.running
             /\ conn' = conn
             /\ log'.stop_notify = log.stop_notify
             /\ IF Subscribed
                THEN caller' = "stop" /\ monitor'.queue = monitor.queue
                ELSE /\ caller' = "idle"
                     /\ monitor'.queue.items =
                           Append(monitor.queue.items, None)]_vars
    /\ [][op' = "stop_resumed" =>
             /\ caller = "stop" /\ caller' = "idle"
             /\ ~Subscribed'
             /\ log'.stop_notify = log.stop_notify + 1
             /\ monitor'.queue.items = Append(monitor.queue.items, None)
             /\ ~monitor'.running]_vars
    /\ [][Cardinality(Sentinels(monitor'.queue))
             > Cardinality(Sentinels(monitor.queue)) =>
             /\ op' = "stop_resumed" \/ (StopStep /\ monitor.running)
             /\ Cardinality(Sentinels(monitor'.queue))
                   = Cardinality(Sentinels(monitor.queue)) + 1
             /\ log'.stops = log.stops + 1]_vars
    /\ [][(caller' = "stop" /\ caller # "stop") =>
             (StopStep /\ monitor.running)]_vars
    /\ [][log'.stop_notify # log.stop_notify =>
             op' \in {"stop_resumed", "disconnect:stop_notify"}]_vars

C29_Witness ==
    /\ op = "stop"
    /\ caller = "idle"
    /\ ~monitor.running
    /\ log.calls = 3
    /\ log.delivered = <<>>
    /\ log.start_notify = 1
    /\ log.stop_notify = 1
    /\ monitor.queue.items = <<None>>

----------------------------------------------------------------------------
(* A reader thread racing update_from_message, under SpecRace *)

\* what the writer applies: the assist level (read first by
\* MotorState.as_dict) set twice, the speed (read after it), a field of
\* battery2 (a section absent from as_dict before), an unrouted message
RaceBuffers ==
    {<<1, 5, 1, 0>>, <<1, 5, 2, 0>>, <<1, 2, 100, 0>>, <<4, 12, 7>>, <<3, 5, 7>>}
RaceMessages == {parse_message(b).ret : b \in RaceBuffers}

\* the writer calls snapshot.update_from_message(msg) and makes its first
\* store
UpdateBegin(msg) ==
    /\ writer.pc = "idle"
    /\ Len(applied) < MaxMessages
    /\ LET r == update_from_message_store(snapshot, msg,
                                          snapshot.last_updated + 1,
                                          "last_updated")
       IN  /\ snapshot' = r.self
           /\ writer' = [pc |-> r.pc, msg |-> msg, before |-> snapshot]
    /\ op' = "update_from_message:store"
    /\ UNCHANGED <<applied, exc, data, parsed, prev, request, registry,
                   returned, lookup, calls, reader>>
    /\ UNCHANGED sessionVars

\* the writer makes the next store of the call; after the last it returns
UpdateStore ==
    /\ writer.pc # "idle"
    /\ LET r == update_from_message_store(snapshot, writer.msg,
                                          snapshot.last_updated, writer.pc)
       IN  /\ snapshot' = r.self
           /\ writer' = IF r.pc = "done" THEN NoUpdate
                        ELSE [writer EXCEPT !.pc = r.pc]
           /\ applied' = IF r.pc = "done" THEN Append(applied, writer.msg)
                         ELSE applied
           /\ op' = IF r.pc = "done" THEN "update_from_message"
                    ELSE "update_from_message:store"
           /\ calls' = IF r.pc = "done" THEN calls + 1 ELSE calls
    /\ exc' = "None"
    /\ UNCHANGED <<data, parsed, prev, request, registry, returned, lookup,
                   reader>>
    /\ UNCHANGED sessionVars

\* update_from_message calls begun so far
Begun == Len(applied) + (IF writer.pc = "idle" THEN 0 ELSE 1)

\* the reader thread calls snapshot.as_dict(): base is the snapshot as it
\* was before the call in progress, if any, n the calls completed
AsDictBegin ==
    /\ reader.pc \in {"idle", "done"}
    /\ reader' = [pc |-> "read", i |-> 1,
                  view |-> TelemetrySnapshot(0),
                  base |-> IF writer.pc = "idle" THEN snapshot
                           ELSE writer.before,
                  n |-> Len(applied), over |-> 0, msg |-> None]
    /\ op' = "as_dict:read"
    /\ UNCHANGED <<snapshot, applied, exc, data, parsed, prev, request,
                   registry, returned, lookup, calls, writer>>
    /\ UNCHANGED sessionVars

\* as_dict makes its next read; after the last it returns the dict of what
\* it read.  over counts the update_from_message calls that overlapped it
\* and msg is the first of them
AsDictRead ==
    /\ reader.pc = "read"
    /\ LET view == as_dict_read(reader.view, snapshot, reader.i)
           last == reader.i = Len(AsDictReads)
       IN  reader' = [reader EXCEPT
                         !.view = view,
                         !.pc = IF last THEN "done" ELSE @,
                         !.i = IF last THEN 0 ELSE @ + 1,
                         !.over = IF last THEN Begun - reader.n ELSE @,
                         !.msg = IF last /\ Begun > reader.n
                                 THEN (IF Len(applied) > reader.n
                                       THEN applied[reader.n + 1]
                                       ELSE writer.msg)
                                 ELSE @]
    /\ op' = IF reader.i = Len(AsDictReads) THEN "as_dict" ELSE "as_dict:read"
    /\ UNCHANGED <<snapshot, applied, exc, data, parsed, prev, request,
                   registry, returned, lookup, calls, writer>>
    /\ UNCHANGED sessionVars

NextRace ==
    \/ \E msg \in RaceMessages : UpdateBegin(msg)
    \/ UpdateStore
    \/ AsDictBegin
    \/ AsDictRead

SpecRace == Init /\ [][NextRace]_vars

\* the value an exported dict shows for a field: None when the field, or
\* its section, is not in the dict
Shown(dict, f) ==
    IF f[1] \in DOMAIN dict /\ f[2] \in DOMAIN dict[f[1]]
    THEN dict[f[1]][f[2]] ELSE None

\* what the finished as_dict call returned, what as_dict would have
\* returned before the update_from_message call that overlapped it, and
\* after that call
ReadDict == TelemetrySnapshot_as_dict(reader.view)
DictBefore == TelemetrySnapshot_as_dict(reader.base)
DictAfter ==
    TelemetrySnapshot_as_dict(
        update_from_message(reader.base, reader.msg, 0).self)

\* the fields, message_count included, that the returned dict shows
\* otherwise than d
StaleFields(d) ==
    {f \in AllFields : Shown(ReadDict, f) # Shown(d, f)}
    \cup (IF ReadDict["message_count"] # d["message_count"]
          THEN {<<"message_count">>} ELSE {})

\* C30: an as_dict call that overlaps one update_from_message call returns
\* for every field the value before or the value after that call, never
\* another one, and either the whole dict of before or a dict with at most
\* one field behind the dict of after; a call that overlaps none returns
\* the dict of the snapshot.
C30_RacingReader ==
    /\ (reader.pc = "done" /\ reader.over = 0) => ReadDict = DictBefore
    /\ (reader.pc = "done" /\ reader.over = 1) =>
          /\ \A f \in AllFields :
                Shown(ReadDict, f) \in {Shown(DictBefore, f), Shown(DictAfter, f)}
          /\ ReadDict["message_count"] \in
                {DictBefore["message_count"], DictAfter["message_count"]}
          /\ \/ ReadDict = DictBefore
             \/ /\ Cardinality(StaleFields(DictAfter)) <= 1
                /\ DOMAIN ReadDict \subseteq DOMAIN DictAfter

\* the reader read motor.assist_level before the store of TRAIL and
\* message_count after the store of message_count = 2
C30_Witness ==
    /\ reader.pc = "done"
    /\ reader.over = 1
    /\ reader.msg = parse_message(<<1, 5, 2, 0>>).ret
    /\ Shown(DictBefore, <<"motor", "assist_level">>) = PyStr(<<"ECO">>)
    /\ Shown(DictAfter, <<"motor", "assist_level">>) = PyStr(<<"TRAIL">>)
    /\ Shown(ReadDict, <<"motor", "assist_level">>) = PyStr(<<"ECO">>)
    /\ ReadDict["message_count"] = PyInt(2)
    /\ StaleFields(DictAfter) = {<<"motor", "assist_level">>}

----------------------------------------------------------------------------
(* The snapshot and the stream of a session, checked under SpecSession *)

\* the delivered buffers long enough to decode
Decodable == {i \in 1..Len(log.delivered) : Len(log.delivered[i]) >= 3}

\* C31: whatever the observer did and whatever the queue and its consumers
\* are at, the session's snapshot has counted every delivered buffer of
\* length >= 3 and nothing else: each call of the handler with such a
\* buffer adds one to message_count and no other step changes the snapshot.
C31_SnapshotAuthoritative ==
    /\ [](snapshot.message_count = Cardinality(Decodable))
    /\ [][HandlerStep =>
             snapshot'.message_count =
                snapshot.message_count + (IF Len(data') >= 3 THEN 1 ELSE 0)]_vars
    /\ [][(~HandlerStep) => snapshot' = snapshot]_vars

C31_Witness ==
    /\ monitor.on_update = "raises"
    /\ Len(log.delivered) = 3
    /\ Cardinality(Decodable) = 2
    /\ snapshot.message_count = 2
    /\ Len(log.on_update) = 2
    /\ consumers[1].pc = "done"
    /\ monitor.queue.items # <<>>

\* s is made of the elements of a and of b, each kept in its order
RECURSIVE IsMerge(_, _, _)
IsMerge(s, a, b) ==
    IF s = <<>> THEN a = <<>> /\ b = <<>>
    ELSE \/ a # <<>> /\ Head(a) = Head(s) /\ IsMerge(Tail(s), Tail(a), b)
         \/ b # <<>> /\ Head(b) = Head(s) /\ IsMerge(Tail(s), a, Tail(b))

\* a is s with some elements left out
RECURSIVE IsSubsequence(_, _)
IsSubsequence(a, s) ==
    IF a = <<>> THEN TRUE
    ELSE IF s = <<>> THEN FALSE
    ELSE IF Head(a) = Head(s) THEN IsSubsequence(Tail(a), Tail(s))
    ELSE IsSubsequence(a, Tail(s))

IsNotNone(item) == item # None

\* the messages waiting in the queue, sentinels left out
Pending == SelectSeq(monitor.queue.items, IsNotNone)

\* C32: what one consumer was yielded is a subsequence of the decoded
\* messages in arrival order; every decoded message is waiting in the
\* queue or was yielded once to one consumer, so none is yielded twice and
\* none that was not delivered; a consumer is yielded the head of the queue.
C32_StreamOrder ==
    /\ [](\A c \in Consumers : IsSubsequence(consumers[c].yielded, applied))
    /\ [](LET k == Len(applied) - Len(Pending)
          IN  /\ k >= 0
              /\ SubSeq(applied, k + 1, Len(applied)) = Pending
              /\ IsMerge(SubSeq(applied, 1, k), consumers[1].yielded,
                         consumers[2].yielded))
    /\ [][\A c \in Consumers :
             consumers'[c].yielded # consumers[c].yielded =>
                /\ monitor.queue.items # <<>>
                /\ consumers'[c].yielded =
                      Append(consumers[c].yielded, Head(monitor.queue.items))
                /\ monitor'.queue.items = Tail(monitor.queue.items)]_vars

C32_Witness ==
    /\ Len(applied) = 3
    /\ applied[1] # applied[2]
    /\ consumers[1].yielded = <<applied[1], applied[3]>>
    /\ consumers[2].yielded = <<applied[2]>>
    /\ monitor.queue.items = <<>>

----------------------------------------------------------------------------
(* Routing of every (sender, channel), under SpecRouting *)

\* pairs no sub-state models: a channel outside the map of each routed
\* sender, sender 0x03 and a sender outside the enumeration
UnroutedKeys == {<<0, 13>>, <<1, 8>>, <<2, 21>>, <<4, 16>>, <<3, 5>>, <<7, 0>>}

\* one buffer for each registered (sender, channel), of its declared
\* width, and a buffer of one payload byte for each unrouted pair
RoutingBuffers ==
    {k \o [i \in 1..FIELD_DEFS[k].data_size |-> 7] : k \in DOMAIN FIELD_DEFS}
    \cup {k \o <<7>> : k \in UnroutedKeys}

RoutingMessages == {parse_message(b).ret : b \in RoutingBuffers}

\* update_from_message(parse_message(buffer)) for up to MaxRouted buffers
NextRouting ==
    \E msg \in RoutingMessages : Len(applied) < MaxRouted /\ UpdateFromMessage(msg)

SpecRouting == Init /\ [][NextRouting]_vars

\* the (sender, channel) pairs the sub-states' channel maps model
Modelled ==
    UNION {{<<s, c>> : c \in DOMAIN ChannelMapOf(SectionOf[s])} :
           s \in DOMAIN SectionOf}

\* the applied messages that are in unknown_messages
InUnknown(m) ==
    \E i \in 1..Len(snapshot.unknown_messages) : snapshot.unknown_messages[i] = m

\* C33: the pairs registered in _FIELD_DEFS are those the channel maps of
\* the sub-states model, and a message decoded by parse_message is appended
\* to unknown_messages by update_from_message if and only if its
\* field_name is None.
C33_RoutingAgreesWithRegistry ==
    /\ [](DOMAIN registry = Modelled)
    /\ [][UpdateStep =>
             LET m == applied'[Len(applied')]
             IN  /\ m.field_name = None => Appended(m)
                 /\ m.field_name # None =>
                       snapshot'.unknown_messages = snapshot.unknown_messages]_vars
    /\ [](\A i \in 1..Len(applied) :
             InUnknown(applied[i]) <=> applied[i].field_name = None)

C33_Witness ==
    /\ Len(applied) = 2
    /\ <<applied[1].sender, applied[1].channel>> = <<1, 21>>
    /\ applied[1].field_name = PyStr(<<"shuttle">>)
    /\ snapshot.motor["shuttle"] = PyInt(7)
    /\ <<applied[2].sender, applied[2].channel>> = <<2, 21>>
    /\ applied[2].field_name = None
    /\ snapshot.unknown_messages = <<applied[2]>>

\* C34: update_from_message of a message routed to a sub-state field sets
\* that field and leaves every other field of the four sub-states and
\* unknown_messages as they were; an unroutable message changes no
\* sub-state; a sender 0x04 message never changes the primary battery and
\* a sender 0x00 message never changes the secondary battery.
C34_FrameOfApply ==
    /\ [][UpdateStep =>
             LET m == applied'[Len(applied')]
             IN  IF Claimed(m)
                 THEN /\ \E f \in AllFields : Targets(m, f) /\ OverwroteOnly(f, m)
                      /\ snapshot'.unknown_messages = snapshot.unknown_messages
                 ELSE SubStatesUnchanged]_vars
    /\ [][(UpdateStep /\ applied'[Len(applied')].sender = 4) =>
             snapshot'.battery = snapshot.battery]_vars
    /\ [][(UpdateStep /\ applied'[Len(applied')].sender = 0) =>
             snapshot'.battery2 = snapshot.battery2]_vars

C34_Witness ==
    /\ Len(applied) = 2
    /\ <<applied[1].sender, applied[1].channel>> = <<0, 12>>
    /\ <<applied[2].sender, applied[2].channel>> = <<4, 5>>
    /\ snapshot.battery = [BatteryState EXCEPT !["charge_pct"] = PyInt(7)]
    /\ snapshot.battery2 =
          [BatteryState EXCEPT !["voltage_v"] = applied[2].converted_value]
    /\ applied[2].converted_value # None
    /\ snapshot.motor = MotorState
    /\ snapshot.settings = BikeSettings
    /\ snapshot.unknown_messages = <<>>

----------------------------------------------------------------------------
(* unknown_messages and the sections of as_dict, checked under Spec *)

IsUnrouted(m) == ~Claimed(m)

\* C35: unknown_messages only grows at its end: a call of
\* update_from_message leaves it as it was or appends its message, the
\* latter exactly when no sub-state models the message, and the sequence
\* is that of the unroutable messages in the order they were applied.
C35_UnknownAppendOnly ==
    /\ [][UpdateStep =>
             LET m == applied'[Len(applied')]
             IN  IF Claimed(m)
                 THEN snapshot'.unknown_messages = snapshot.unknown_messages
                 ELSE Appended(m)]_vars
    /\ [][(~UpdateStep) =>
             snapshot'.unknown_messages = snapshot.unknown_messages]_vars
    /\ [](snapshot.unknown_messages = SelectSeq(applied, IsUnrouted))

C35_Witness ==
    /\ Len(applied) = 3
    /\ <<applied[1].sender, applied[1].channel>> = <<3, 5>>
    /\ <<applied[2].sender, applied[2].channel>> = <<0, 12>>
    /\ <<applied[3].sender, applied[3].channel>> = <<1, 6>>
    /\ snapshot.unknown_messages = <<applied[1], applied[3]>>

\* C36: as_dict() always has the "battery" and "motor" sections, empty
\* when none of their fields is set, and has the "settings" section, like
\* "battery2", exactly when one of its fields is set.
C36_SectionPresence ==
    LET d == TelemetrySnapshot_as_dict(snapshot)
    IN  /\ "battery" \in DOMAIN d
        /\ "motor" \in DOMAIN d
        /\ (DOMAIN d["battery"] = {}) <=>
              (\A a \in BatteryAttrs : snapshot.battery[a] = None)
        /\ (DOMAIN d["motor"] = {}) <=>
              (\A a \in MotorAttrs : snapshot.motor[a] = None)
        /\ "settings" \in DOMAIN d <=>
              (\E a \in SettingsAttrs : snapshot.settings[a] # None)
        /\ "battery2" \in DOMAIN d <=>
              (\E a \in BatteryAttrs : snapshot.battery2[a] # None)
        /\ DOMAIN d \subseteq
              {"battery", "battery2", "motor", "settings", "message_count"}

C36_Witness ==
    LET d == TelemetrySnapshot_as_dict(snapshot)
    IN  /\ Len(applied) = 1
        /\ <<applied[1].sender, applied[1].channel>> = <<3, 5>>
        /\ DOMAIN d = {"battery", "motor", "message_count"}
        /\ DOMAIN d["battery"] = {}
        /\ DOMAIN d["motor"] = {}

----------------------------------------------------------------------------
(* The session across stop() and start(), checked under SpecSession *)

\* the generator of c ran in this step
StreamStep(c) == consumers'[c] # consumers[c] /\ consumers[c].pc # "idle"

\* C37: the queue is never cleared: items leave it only at its head, taken
\* by a consumer, and start() leaves it as it is.  So the sentinel of a
\* stop() that no consumer dequeued is still there after the next start():
\* a consumer that begins to iterate in the new running period, finding it
\* at the head, ends having yielded nothing, while running is true and
\* the messages behind it stay in the queue.
C37_StaleSentinel ==
    /\ [][monitor'.queue.items # monitor.queue.items =>
             \/ \E item \in {None, parsed'} :
                   monitor'.queue.items = Append(monitor.queue.items, item)
             \/ /\ monitor.queue.items # <<>>
                /\ monitor'.queue.items = Tail(monitor.queue.items)
                /\ \E c \in Consumers : StreamStep(c)]_vars
    /\ [][(StartStep \/ op' = "start_resumed") =>
             monitor'.queue = monitor.queue]_vars
    /\ [][\A c \in Consumers :
             (/\ StreamStep(c)
              /\ consumers[c].began = -1
              /\ monitor.running
              /\ monitor.queue.items # <<>>
              /\ Head(monitor.queue.items) = None) =>
                /\ log.stops >= 1
                /\ consumers'[c].pc = "done"
                /\ consumers'[c].yielded = <<>>
                /\ monitor'.running
                /\ monitor'.queue.items = Tail(monitor.queue.items)]_vars

C37_Witness ==
    /\ op = "stream"
    /\ consumers[1] = [pc |-> "done", yielded |-> <<>>, began |-> 1]
    /\ consumers[2].pc = "idle"
    /\ monitor.running
    /\ conn.notification_started
    /\ log.start_notify = 2
    /\ log.stop_notify = 1
    /\ Len(applied) = 1
    /\ monitor.queue.items = <<applied[1]>>

\* C38: a generator that runs its loop test while running is false ends
\* there: it yields nothing more and removes nothing from the queue, be it
\* a new iteration or one that was between two yields when stop() set the
\* flag.  A message is yielded only by a generator that found running true
\* or was blocked in the dequeue.
C38_DequeueOnlyWhileRunning ==
    /\ [][\A c \in Consumers :
             (StreamStep(c) /\ consumers[c].pc = "loop" /\ ~monitor.running) =>
                /\ consumers'[c].pc = "done"
                /\ consumers'[c].yielded = consumers[c].yielded
                /\ monitor' = monitor]_vars
    /\ [][\A c \in Consumers :
             consumers'[c].yielded # consumers[c].yielded =>
                (monitor.running \/ consumers[c].pc = "get")]_vars

C38_Witness ==
    /\ op = "stream"
    /\ ~monitor.running
    /\ Len(applied) = 2
    /\ consumers[1].pc = "done"
    /\ consumers[1].yielded = <<applied[1]>>
    /\ consumers[2].pc = "idle"
    /\ monitor.queue.items = <<applied[2], None>>

\* C39: _notification_handler does not read the running flag: with running
\* false, before start() or after stop(), a decodable buffer is decoded,
\* applied to the snapshot, passed to the observer when there is one and
\* put at the end of the queue, behind the sentinel of a stop(); the call
\* does what it would do with running true.
C39_HandlerIgnoresRunning ==
    /\ [][(HandlerStep /\ Len(data') >= 3 /\ ~monitor.running) =>
             /\ Processed
             /\ exc' = "None"
             /\ ~monitor'.running
             /\ monitor.on_update # "None" =>
                   /\ Len(log'.on_update) = Len(log.on_update) + 1
                   /\ Last(log'.on_update).msg = parsed'
                   /\ Last(log'.on_update).snapshot = snapshot']_vars
    /\ [][HandlerStep =>
             LET now == snapshot.last_updated + 1
                 on == notification_handler([monitor EXCEPT !.running = TRUE],
                                            snapshot, data', now)
                 off == notification_handler([monitor EXCEPT !.running = FALSE],
                                             snapshot, data', now)
             IN  /\ on.snapshot = off.snapshot
                 /\ on.msg = off.msg
                 /\ on.on_update = off.on_update
                 /\ on.self.queue = off.self.queue
                 /\ on.exc = off.exc]_vars

C39_Witness ==
    /\ op = "_notification_handler"
    /\ ~monitor.running
    /\ log.start_notify = 1
    /\ log.stop_notify = 1
    /\ monitor.on_update = "returns"
    /\ Len(log.on_update) = 1
    /\ Last(log.on_update).msg = parsed
    /\ snapshot.message_count = 1
    /\ monitor.queue.items = <<None, parsed>>

----------------------------------------------------------------------------
(* The session when the transport fails, under SpecTransport *)

\* start_notify raises, subscribe_notifications and start() with it;
\* _notification_started is not set
StartRaised ==
    /\ caller = "start"
    /\ LET r == start_raised(monitor)
       IN  /\ monitor' = r.self
           /\ exc' = r.exc
    /\ log' = [log EXCEPT !.raised = Append(@, "start")]
    /\ caller' = "idle"
    /\ op' = "start_raised"
    /\ UNCHANGED <<snapshot, applied, data, parsed, prev, request, registry,
                   returned, lookup, calls, conn, consumers>>
    /\ UNCHANGED raceVars

\* stop_notify, called when notifications were started, raises and
\* unsubscribe_notifications and stop() with it; _notification_started
\* is not reset
StopRaised ==
    /\ caller = "stop"
    /\ LET r == stop_raised(monitor)
       IN  /\ monitor' = r.self
           /\ exc' = r.exc
    /\ log' = [log EXCEPT !.raised = Append(@, "stop")]
    /\ caller' = "idle"
    /\ op' = "stop_raised"
    /\ UNCHANGED <<snapshot, applied, data, parsed, prev, request, registry,
                   returned, lookup, calls, conn, consumers>>
    /\ UNCHANGED raceVars

\* the client's connect() raises and connect() with it
ConnectRaised ==
    /\ caller = "connect"
    /\ LET r == connect_raised(conn)
       IN  /\ conn' = r.self
           /\ exc' = r.exc
    /\ log' = [log EXCEPT !.raised = Append(@, "connect")]
    /\ caller' = "idle"
    /\ op' = "connect_raised"
    /\ UNCHANGED <<snapshot, applied, data, parsed, prev, request, registry,
                   returned, lookup, calls, monitor, consumers>>
    /\ UNCHANGED raceVars

\* the stop_notify of disconnect() raises; the exception is swallowed
\* ("except Exception: pass"), no transport call returned, and disconnect()
\* goes on to await the client's disconnect()
DisconnectStopNotifyRaised ==
    /\ caller = "disconnect:stop_notify"
    /\ conn' = disconnect_stop_notify(conn)
    /\ caller' = "disconnect"
    /\ op' = "disconnect:stop_notify_raised"
    /\ UNCHANGED <<snapshot, applied, exc, data, parsed, prev, request,
                   registry, returned, lookup, calls, monitor, consumers,
                   log>>
    /\ UNCHANGED raceVars

\* the client's disconnect() raises and disconnect() with it
DisconnectRaised ==
    /\ caller = "disconnect"
    /\ LET r == disconnect_raised(conn)
       IN  /\ conn' = r.self
           /\ exc' = r.exc
    /\ log' = [log EXCEPT !.raised = Append(@, "disconnect")]
    /\ caller' = "idle"
    /\ op' = "disconnect_raised"
    /\ UNCHANGED <<snapshot, applied, data, parsed, prev, request, registry,
                   returned, lookup, calls, monitor, consumers>>
    /\ UNCHANGED raceVars

\* the buffer the transport delivers under SpecTransport
TransportBuffers == {<<0, 12, 7>>}

\* the session with no observer, where each transport call either returns
\* or raises
NextTransport ==
    \/ \E buffer \in TransportBuffers : Notification(buffer)
    \/ Start
    \/ StartResumed
    \/ StartRaised
    \/ Stop
    \/ StopResumed
    \/ StopRaised
    \/ Disconnect
    \/ DisconnectStopNotify
    \/ DisconnectStopNotifyRaised
    \/ DisconnectResumed
    \/ DisconnectRaised
    \/ OnDisconnect
    \/ Connect
    \/ ConnectResumed
    \/ ConnectRead
    \/ ConnectPaired
    \/ ConnectRaised
    \/ \E c \in Consumers : StreamBegin(c)
    \/ \E c \in Consumers : StreamLoop(c)
    \/ \E c \in Consumers : StreamGet(c)

SpecTransport == Init /\ [][NextTransport]_vars

\* C40: start() sets running before it subscribes: when the subscription
\* raises, running stays true with nothing subscribed, and a later start()
\* returns at once without subscribing.  stop() clears running before it
\* unsubscribes: when that raises, running is false, no sentinel is put,
\* and a consumer blocked on the empty queue stays blocked.
C40_TransportFailure ==
    /\ [][op' = "start_raised" =>
             /\ caller = "start" /\ caller' = "idle"
             /\ exc' # "None"
             /\ monitor.running
             /\ monitor' = monitor
             /\ conn' = conn
             /\ log'.start_notify = log.start_notify]_vars
    /\ [][(StartStep /\ ~monitor.running /\ conn.client = "None") =>
             /\ monitor'.running
             /\ caller' = "idle"
             /\ exc' # "None"
             /\ conn' = conn]_vars
    /\ [][(StartStep /\ monitor.running) =>
             /\ NothingChanged
             /\ log'.start_notify = log.start_notify]_vars
    /\ [][op' = "stop_raised" =>
             /\ caller = "stop" /\ caller' = "idle"
             /\ exc' # "None"
             /\ ~monitor.running
             /\ monitor' = monitor
             /\ conn' = conn
             /\ consumers' = consumers]_vars
    /\ [][\A c \in Consumers :
             (consumers[c].pc = "get" /\ monitor.queue.items = <<>>) =>
                consumers'[c] = consumers[c]]_vars

C40_Witness ==
    /\ log.raised = <<"stop", "start">>
    /\ op = "start"
    /\ caller = "idle"
    /\ log.calls = 4
    /\ monitor.running
    /\ log.start_notify = 1
    /\ log.stop_notify = 0
    /\ conn.notification_started
    /\ consumers[1].pc = "get"
    /\ monitor.queue.items = <<>>

====
